---------------------------- MODULE Spec2Model ----------------------------
(***************************************************************************)
(* Model of LinkDownloaderBotForGroups.                                    *)
(*                                                                         *)
(*   Spec         the running bot of src/main.py: the group-message        *)
(*                handler that builds jobs and puts them on the bounded    *)
(*                queue jobs_q, and the WORKERS worker threads that run    *)
(*                _worker_loop / _process_job.                             *)
(*   SpecBackend  one call of download_with_ytdlp of                       *)
(*                src/app/download_backend.py (metadata fetch, plan,       *)
(*                download attempts with the per-site fallbacks) against   *)
(*                a Media Service whose every call may fail.               *)
(*   SpecFair     Spec with every worker thread scheduled fairly.          *)
(*   SpecDelivery the messaging calls of the worker threads and of a       *)
(*                handler thread, each made through _bot_call under the    *)
(*                lock bot_lock.                                           *)
(*   SpecPrefs    the preference store: the cache _prefs_cache, the file   *)
(*                prefs.json and its temporary file, the threads that      *)
(*                read, toggle and mark under _prefs_lock, and a crash     *)
(*                of the process during a save.                            *)
(*   SpecFiles    the output folder: files written by downloads,           *)
(*                _find_downloaded_file and _cleanup_files.                *)
(*   SpecPlanner  the format planners given one metadata snapshot:         *)
(*                _choose_format_for_url of main.py and                    *)
(*                build_video_plan_like_main1 of download_backend.py.      *)
(*   SpecSeparate _pick_best_separate_mp4_m4a given video-only and         *)
(*                audio-only formats.                                      *)
(*   SpecWelcome  handle_new_chat_members run by the handler threads.      *)
(*   SpecToggle   concurrent _toggle_opt_out calls of the handler threads, *)
(*                the read and the store of a call taken as two steps.     *)
(*                                                                         *)
(* Leading underscores of the Python names are dropped.                    *)
(***************************************************************************)
EXTENDS Naturals, Integers, Sequences, FiniteSets, TLC

(***************************************************************************)
(* Program constants and bounds of the model.                              *)
(***************************************************************************)
\* main.py:24
WORKERS == 2
\* main.py:25 sets 200; the model runs the same queue code with a small
\* capacity so that the full queue is reached.
MAX_QUEUE == 1
\* Number of link messages the handler accepts in one run of the model.
MaxJobs == 2

\* main.py:839-841: one thread per number of range(WORKERS)
Workers == 1..WORKERS
JobIds == 1..MaxJobs
Chats == {"c1"}
Users == {"u1"}

\* main.py:27, the concurrent_fragments argument of download_with_ytdlp
YTDLP_CONCURRENT_FRAGMENTS == 4
\* env_config.py:25-27 (defaults)
YTDLP_INSTAGRAM_RETRIES == 8
YTDLP_INSTAGRAM_FRAGMENT_RETRIES == 8
YTDLP_INSTAGRAM_SOCKET_TIMEOUT == 30

\* url_utils.py:14-27: the sites download_with_ytdlp tells apart
Categories == {"generic", "youtube", "instagram"}
\* What build_video_plan_like_main1 makes of a metadata snapshot
PlanKinds == {"progressive", "separate", "noplan"}

\* The ways the try block of _process_job can raise (main.py:795-818).
ErrorKinds == {"DownloadError", "OutputNotFound", "AudioOnly", "Oversized", "DeliveryError"}
\* What _find_downloaded_file hands back to _process_job (main.py:796-804).
FileKinds == {"none", "video", "video_big", "audio"}

VARIABLES
    jobs_q,       \* queue.Queue(maxsize=MAX_QUEUE): sequence of job ids
    next_msg,     \* id of the next link message (original_message_id of its job)
    notify_on_fail,              \* job id -> Job.notify_on_fail
    delete_original_on_success,  \* job id -> Job.delete_original_on_success
    trigger,      \* job id -> how its message asked for it: "none" (no job yet),
                  \*   "auto" (URL, bot not mentioned), "mention" (bot mentioned,
                  \*   sender not opted out), "mention_opted_out"
    status,       \* job id -> "none" | "queued" | "rejected" | "running" | "done"
    outcome,      \* job id -> "none" | "ok" | "failed"
    pc,           \* worker -> position in _worker_loop / _process_job
    cur,          \* worker -> job id it holds, 0 when it holds none
    err,          \* worker -> exception raised by the job it holds, "none" if none
    file,         \* worker -> file_path found by _find_downloaded_file
    meta_calls,   \* job id -> metadata fetches made for it
    dl_calls,     \* job id -> download calls made for it
    sent,         \* job id -> bot.send_video returned for it
    deleted,      \* job id -> bot.delete_message was requested for its message
    notices,      \* job id -> number of "download failed" notices requested
    cleaned,      \* job id -> number of _cleanup_files calls for its prefix
    opt_out,      \* _prefs_cache["opt_out"]: chat -> (user -> TRUE)
    b_cat,        \* download_with_ytdlp: site of the url
    b_cookie,     \*   whether config.cookies_file names an existing file
    b_imp,        \*   whether _parse_impersonate_target yields a target
    b_pc,         \*   position in the function, "returned" / "raised" at its end
    b_calls,      \*   the Media Service calls made so far, in order
    b_meta,       \*   the metadata snapshot, by the plan the planner makes of it
    b_err,        \*   index in b_calls of the call whose error left the function
    bot_lock,     \* threading.RLock of _bot_call: the thread holding it, 0 if free
    d_pc,         \* thread -> "idle" | "wait" (at "with bot_lock") | "call" (inside fn)
    d_fn,         \* thread -> the bot function of its current or last _bot_call
    d_done,       \* thread -> number of its _bot_call calls that have ended
    welcomed_groups,   \* _prefs_cache["welcomed_groups"]: chat -> TRUE
    welcomed_private,  \* _prefs_cache["welcomed_private"]: user -> TRUE
    p_loaded,     \* whether _prefs_cache is non-empty (loaded or set to defaults)
    p_file,       \* the file at PREFS_PATH: its kind and, for a document, its maps
    p_tmp,        \* the file at PREFS_PATH + ".tmp"
    p_lock,       \* _prefs_lock: the thread holding it, 0 if free
    p_pc,         \* handler thread -> position in its preference-store call
    p_op,         \* handler thread -> the call it is in or was last in
    p_ret,        \* handler thread -> what its last call returned, "raised" if it raised
    p_calls,      \* number of preference-store calls started
    p_crashed,    \* the process has died
    p_file0,      \* history: the file at PREFS_PATH when the process started
    p_rets,       \* history: (chat, user) -> results of the _toggle_opt_out calls
                  \*   for the pair that reached the toggle, in the order of the lock
    folder,       \* the files of config.output_folder: name, the prefix it was
                  \*   written for, size
    f_found,      \* what the last _find_downloaded_file call returned
    f_op,         \* history: the last operation on the folder and its arguments
    f_step,       \* what _process_job does with the file found: "send", or the
                  \*   error it raises before the send; "none" before a find.
                  \*   After _cleanup_files: "CleanupRaised" when it raised,
                  \*   "DeletionRefused" when a removal was refused, else "none"
    pl_formats,   \* meta["formats"] of the metadata snapshot given to the planners
    pl_choice,    \* what _choose_format_for_url returned
    pl_plan,      \* what build_video_plan_like_main1 returned
    pl_pair,      \* what _pick_best_separate_mp4_m4a returned
    w_pc,         \* handler thread -> position in handle_new_chat_members
    w_chat,       \* handler thread -> chat of the message it handles or handled last
    w_msgs,       \* chat -> number of welcome messages sent to it
    w_events      \* number of new_chat_members messages handled or in hand

jobVars == <<next_msg, notify_on_fail, delete_original_on_success, trigger, status, outcome>>
workerVars == <<pc, cur, err, file>>
logVars == <<meta_calls, dl_calls, sent, deleted, notices, cleaned>>
backendVars == <<b_cat, b_cookie, b_imp, b_pc, b_calls, b_meta, b_err>>
deliveryVars == <<bot_lock, d_pc, d_fn, d_done>>
\* The components that are modelled on their own, outside the scheduler.
cacheVars == <<welcomed_groups, welcomed_private, p_loaded>>
prefsVars == <<cacheVars, p_file, p_tmp, p_lock, p_pc, p_op, p_ret, p_calls, p_crashed,
               p_file0, p_rets>>
filesVars == <<folder, f_found, f_op, f_step>>
plannerVars == <<pl_formats, pl_choice, pl_plan, pl_pair>>
welcomeVars == <<w_pc, w_chat, w_msgs, w_events>>
\* What the preference store does not touch.
outsidePrefs == <<jobs_q, jobVars, workerVars, logVars, backendVars, deliveryVars, filesVars,
                  plannerVars, welcomeVars>>
componentVars == <<deliveryVars, prefsVars, filesVars, plannerVars, welcomeVars>>
\* The scheduler, the opt-out cache it reads and download_with_ytdlp.
mainVars == <<jobs_q, jobVars, workerVars, logVars, opt_out, backendVars>>
vars == <<mainVars, componentVars>>

(***************************************************************************)
(* Preference cache (the part the message handler reads and writes).       *)
(***************************************************************************)
EmptyDict == [x \in {} |-> TRUE]
DictPut(d, k, v) == [x \in (DOMAIN d) \cup {k} |-> IF x = k THEN v ELSE d[x]]
DictPop(d, k) == [x \in (DOMAIN d) \ {k} |-> d[x]]
DictGet(d, k, default) == IF k \in DOMAIN d THEN d[k] ELSE default

\* main.py:544-562: the opt_out maps a prefs.json written by earlier runs of
\* the bot can hold (only opted-out users are stored)
OptOutDocs ==
    UNION {[C -> {[u \in U |-> TRUE] : U \in (SUBSET Users) \ {{}}}] : C \in SUBSET Chats}

\* _is_opted_out answers "not opted out" whatever the cache holds.
never_opted_out(chat_id, user_id) == FALSE

\* main.py:580-586
is_opted_out(chat_id, user_id) ==
    DictGet(DictGet(opt_out, chat_id, EmptyDict), user_id, FALSE)

\* _toggle_opt_out returns TRUE whatever the cache holds.
toggle_always_out(chat_id, user_id) == TRUE

\* main.py:602: the value _toggle_opt_out returns
toggle_new_value(chat_id, user_id) == ~ is_opted_out(chat_id, user_id)

\* _toggle_opt_out stores the new value, FALSE included, and pops nothing.
toggle_keeps_false(chat_id, user_id) ==
    DictPut(opt_out, chat_id,
            DictPut(DictGet(opt_out, chat_id, EmptyDict), user_id,
                    toggle_new_value(chat_id, user_id)))

\* main.py:597-608: the opt_out map after _toggle_opt_out
toggle_opt_out(chat_id, user_id) ==
    LET users == DictGet(opt_out, chat_id, EmptyDict)
        new_value == toggle_new_value(chat_id, user_id)
        users1 == DictPut(users, user_id, new_value)
        users2 == IF ~ new_value THEN DictPop(users1, user_id) ELSE users1
    IN  IF DOMAIN users2 = {} THEN DictPop(opt_out, chat_id)
        ELSE DictPut(opt_out, chat_id, users2)

(***************************************************************************)
(* Request intake: handle_group_messages (main.py:949-1034).               *)
(***************************************************************************)
\* Off by one: the queue takes one job more than its capacity.
FullOffByOne(q) == Len(q) > MAX_QUEUE

\* queue.Queue.full() as put_nowait sees it (main.py:50, 1028)
Full(q) == Len(q) >= MAX_QUEUE

\* Every mention asks for a notice, opted out or not.
NotifyOnEveryMention(opted_out, bot_mentioned) == bot_mentioned

\* main.py:1013
NotifyOnFail(opted_out, bot_mentioned) == opted_out /\ bot_mentioned

\* The handler notifies about a full queue whatever the flag.
RejectAlwaysNotifies(notify) == TRUE

\* main.py:1030: whether the handler sends the failure notice on queue.Full
RejectNotifies(notify) == notify

\* A group text message of a human sender that is no command; the message
\* is described by what the handler reads from it.
Messages == [chat: Chats, user: Users, bot_mentioned: BOOLEAN,
             self_mention: BOOLEAN, has_url: BOOLEAN]

handle_group_messages(m) ==
    IF m.bot_mentioned /\ m.self_mention
    THEN \* main.py:971-992: toggle and answer, no job. The cache holds the
         \* new value whether or not writing prefs.json succeeds (603-610).
         /\ opt_out' = toggle_opt_out(m.chat, m.user)
         /\ UNCHANGED <<jobs_q, jobVars, workerVars, logVars, backendVars, componentVars>>
    ELSE /\ m.has_url                                      \* main.py:994-996
         /\ ~ (is_opted_out(m.chat, m.user) /\ ~ m.bot_mentioned)  \* main.py:1007
         /\ next_msg <= MaxJobs
         /\ LET j == next_msg
                notify == NotifyOnFail(is_opted_out(m.chat, m.user), m.bot_mentioned)
            IN  /\ next_msg' = next_msg + 1
                /\ notify_on_fail' = [notify_on_fail EXCEPT ![j] = notify]
                /\ delete_original_on_success' =
                       [delete_original_on_success EXCEPT ![j] = TRUE]
                /\ trigger' = [trigger EXCEPT ![j] =
                       IF ~ m.bot_mentioned THEN "auto"
                       ELSE IF is_opted_out(m.chat, m.user) THEN "mention_opted_out"
                       ELSE "mention"]
                /\ IF Full(jobs_q)
                   THEN \* main.py:1029-1031: queue.Full
                        /\ jobs_q' = jobs_q
                        /\ status' = [status EXCEPT ![j] = "rejected"]
                        /\ notices' = [notices EXCEPT ![j] =
                               IF RejectNotifies(notify) THEN @ + 1 ELSE @]
                   ELSE \* main.py:1028
                        /\ jobs_q' = Append(jobs_q, j)
                        /\ status' = [status EXCEPT ![j] = "queued"]
                        /\ notices' = notices
                /\ UNCHANGED <<outcome, workerVars, meta_calls, dl_calls, sent,
                               deleted, cleaned, opt_out, backendVars, componentVars>>

(***************************************************************************)
(* Workers: _worker_loop (main.py:830-836) and _process_job (789-827).     *)
(***************************************************************************)
\* The except clause misses the delivery errors.
CatchesNoDeliveryError(e) == e \in ErrorKinds \ {"DeliveryError"}

\* main.py:823: "except Exception" catches every error the try block raises
Catches(e) == e \in ErrorKinds

\* The original message is deleted before the video is sent.
TryStepDeleteFirst(p) ==
    CASE p = "meta" -> "download"
      [] p = "download" -> "resolve"
      [] p = "resolve" -> "delete"
      [] p = "delete" -> "send"
      [] p = "send" -> "finally"

\* main.py:795-821: the order of the steps of the try block; what follows a
\* step that returned normally
TryStep(p) ==
    CASE p = "meta" -> "download"
      [] p = "download" -> "resolve"
      [] p = "resolve" -> "send"
      [] p = "send" -> "delete"
      [] p = "delete" -> "finally"

\* main.py:820: the delete step is skipped without the job's flag
BodyNext(j, p) ==
    IF TryStep(p) = "delete" /\ ~ delete_original_on_success[j]
    THEN TryStep("delete") ELSE TryStep(p)

\* The except clause sends the notice whatever the flag.
AlwaysNotify(j) == TRUE

\* main.py:824: whether the except clause sends the failure notice
ShouldNotify(j) == notify_on_fail[j]

\* Cleanup sits at the end of the try block only: a failed job skips it.
ExceptSkipsCleanup == "task_done"

\* main.py:826: the finally clause follows the except clause
ExceptExit == "finally"

\* The step at pc[w] returned normally; the try block has succeeded when
\* control reaches the finally clause this way.
Proceed(w) ==
    /\ pc' = [pc EXCEPT ![w] = BodyNext(cur[w], pc[w])]
    /\ outcome' = [outcome EXCEPT ![cur[w]] =
                      IF BodyNext(cur[w], pc[w]) = "finally" THEN "ok" ELSE @]
    /\ err' = err

\* A raise inside the try block of _process_job: control goes to the except
\* clause when it catches the error, else straight to the finally clause
\* with the exception still propagating.
Raise(w, e) ==
    /\ err' = [err EXCEPT ![w] = e]
    /\ pc' = [pc EXCEPT ![w] = IF Catches(e) THEN "except" ELSE "finally_raise"]
    /\ outcome' = outcome

\* get() hands out the job at the head of the queue and leaves it there.
GetLeavesJob(w) ==
    /\ pc[w] = "idle"
    /\ jobs_q # << >>
    /\ jobs_q' = jobs_q
    /\ cur' = [cur EXCEPT ![w] = Head(jobs_q)]
    /\ status' = [status EXCEPT ![Head(jobs_q)] = "running"]
    /\ pc' = [pc EXCEPT ![w] = "meta"]
    /\ UNCHANGED <<next_msg, notify_on_fail, delete_original_on_success, trigger,
                   outcome, err, file, logVars, opt_out, backendVars, componentVars>>

\* main.py:832: jobs_q.get() blocks until a job is there
Get(w) ==
    /\ pc[w] = "idle"
    /\ jobs_q # << >>
    /\ jobs_q' = Tail(jobs_q)
    /\ cur' = [cur EXCEPT ![w] = Head(jobs_q)]
    /\ status' = [status EXCEPT ![Head(jobs_q)] = "running"]
    /\ pc' = [pc EXCEPT ![w] = "meta"]
    /\ UNCHANGED <<next_msg, notify_on_fail, delete_original_on_success, trigger,
                   outcome, err, file, logVars, opt_out, backendVars, componentVars>>

\* main.py:367-399 _choose_format_for_url: one metadata fetch; its failure is
\* swallowed and its result only selects the format expression
ChooseFormat(w) ==
    /\ pc[w] = "meta"
    /\ meta_calls' = [meta_calls EXCEPT ![cur[w]] = @ + 1]
    /\ Proceed(w)
    /\ UNCHANGED <<jobs_q, next_msg, notify_on_fail, delete_original_on_success,
                   trigger, status, cur, file, dl_calls, sent, deleted,
                   notices, cleaned, opt_out, backendVars, componentVars>>

\* main.py:435-436: the single download call of _download_with_ytdlp
Download(w) ==
    /\ pc[w] = "download"
    /\ dl_calls' = [dl_calls EXCEPT ![cur[w]] = @ + 1]
    /\ \E ok \in BOOLEAN :
          IF ok THEN Proceed(w) ELSE Raise(w, "DownloadError")
    /\ UNCHANGED <<jobs_q, next_msg, notify_on_fail, delete_original_on_success,
                   trigger, status, cur, file, meta_calls, sent, deleted,
                   notices, cleaned, opt_out, backendVars, componentVars>>

\* main.py:796-804: resolve the output file, refuse a missing or audio-only one
Resolve(w) ==
    /\ pc[w] = "resolve"
    /\ \E f \in FileKinds :
          /\ file' = [file EXCEPT ![w] = f]
          /\ IF f = "none" THEN Raise(w, "OutputNotFound")
             ELSE IF f = "audio" THEN Raise(w, "AudioOnly")
             ELSE Proceed(w)
    /\ UNCHANGED <<jobs_q, next_msg, notify_on_fail, delete_original_on_success,
                   trigger, status, cur, logVars, opt_out, backendVars, componentVars>>

\* The size of the file is not looked at.
NeverTooLarge(f) == FALSE

\* main.py:445-446: os.path.getsize(file_path) > MAX_SEND_BYTES
TooLarge(f) == f = "video_big"

\* main.py:813-818 with _send_video_no_reply (439-459)
Send(w) ==
    /\ pc[w] = "send"
    /\ IF TooLarge(file[w])
       THEN \* main.py:446-447
            /\ Raise(w, "Oversized")
            /\ sent' = sent
       ELSE \E ok \in BOOLEAN :
               IF ok
               THEN /\ sent' = [sent EXCEPT ![cur[w]] = TRUE]
                    /\ Proceed(w)
               ELSE /\ Raise(w, "DeliveryError")
                    /\ sent' = sent
    /\ UNCHANGED <<jobs_q, next_msg, notify_on_fail, delete_original_on_success,
                   trigger, status, cur, file, meta_calls, dl_calls, deleted,
                   notices, cleaned, opt_out, backendVars, componentVars>>

\* main.py:820-821: _safe_delete_message never raises
Delete(w) ==
    /\ pc[w] = "delete"
    /\ deleted' = [deleted EXCEPT ![cur[w]] = TRUE]
    /\ Proceed(w)
    /\ UNCHANGED <<jobs_q, next_msg, notify_on_fail, delete_original_on_success,
                   trigger, status, cur, file, meta_calls, dl_calls, sent,
                   notices, cleaned, opt_out, backendVars, componentVars>>

\* main.py:823-825: the except clause; _safe_send_message never raises
Except(w) ==
    /\ pc[w] = "except"
    /\ outcome' = [outcome EXCEPT ![cur[w]] = "failed"]
    /\ notices' = [notices EXCEPT ![cur[w]] = IF ShouldNotify(cur[w]) THEN @ + 1 ELSE @]
    /\ pc' = [pc EXCEPT ![w] = ExceptExit]
    /\ UNCHANGED <<jobs_q, next_msg, notify_on_fail, delete_original_on_success,
                   trigger, status, cur, err, file, meta_calls, dl_calls, sent,
                   deleted, cleaned, opt_out, backendVars, componentVars>>

\* main.py:826-827: the finally clause; _cleanup_files never raises. It is
\* the last statement of _process_job: the locals are gone after it.
Finally(w) ==
    /\ pc[w] \in {"finally", "finally_raise"}
    /\ cleaned' = [cleaned EXCEPT ![cur[w]] = @ + 1]
    /\ pc' = [pc EXCEPT ![w] = IF pc[w] = "finally" THEN "task_done" ELSE "task_done_raise"]
    /\ outcome' = [outcome EXCEPT ![cur[w]] = IF pc[w] = "finally" THEN @ ELSE "failed"]
    /\ err' = [err EXCEPT ![w] = "none"]
    /\ file' = [file EXCEPT ![w] = "none"]
    /\ UNCHANGED <<jobs_q, next_msg, notify_on_fail, delete_original_on_success,
                   trigger, status, cur, meta_calls, dl_calls, sent, deleted,
                   notices, opt_out, backendVars, componentVars>>

\* main.py:835-836: task_done, then back to jobs_q.get(); an exception that
\* left _process_job ends the thread
TaskDone(w) ==
    /\ pc[w] \in {"task_done", "task_done_raise"}
    /\ status' = [status EXCEPT ![cur[w]] = "done"]
    /\ cur' = [cur EXCEPT ![w] = 0]
    /\ err' = [err EXCEPT ![w] = "none"]
    /\ file' = [file EXCEPT ![w] = "none"]
    /\ pc' = [pc EXCEPT ![w] = IF pc[w] = "task_done" THEN "idle" ELSE "dead"]
    /\ UNCHANGED <<next_msg, notify_on_fail, delete_original_on_success, trigger,
                   outcome, jobs_q, logVars, opt_out, backendVars, componentVars>>

(***************************************************************************)
(* download_with_ytdlp (download_backend.py:238-342).  Option bags are     *)
(* dicts; only the options that differ between the attempts are kept.      *)
(***************************************************************************)
DictUpdate(d, e) ==
    [x \in (DOMAIN d) \cup (DOMAIN e) |-> IF x \in DOMAIN e THEN e[x] ELSE d[x]]

is_youtube_url(cat) == cat = "youtube"
\* No url counts as an Instagram url.
never_instagram(cat) == FALSE
is_instagram_url(cat) == cat = "instagram"

\* download_backend.py:174-182, with the defaults of env_config.py:21-22
youtube_api_opts == [js_runtimes |-> TRUE, remote_components |-> TRUE]

\* download_backend.py:185-191
instagram_api_opts(force_impersonate, target_ok) ==
    IF force_impersonate /\ target_ok THEN [impersonate |-> TRUE] ELSE EmptyDict

\* download_backend.py:264-268 and 304-308
instagram_retry_opts ==
    [retries |-> YTDLP_INSTAGRAM_RETRIES,
     fragment_retries |-> YTDLP_INSTAGRAM_FRAGMENT_RETRIES,
     socket_timeout |-> YTDLP_INSTAGRAM_SOCKET_TIMEOUT]

WithCookie(opts, cookie) == IF cookie THEN DictPut(opts, "cookiefile", TRUE) ELSE opts
WithMerge(opts, merge) ==
    IF merge # "none" THEN DictPut(opts, "merge_output_format", merge) ELSE opts

\* download_backend.py:194-205
base_meta_opts(cookie) == WithCookie([socket_timeout |-> 20, retries |-> 5], cookie)

\* download_backend.py:208-225
base_download_opts(concurrent_fragments) ==
    [concurrent_fragment_downloads |-> concurrent_fragments,
     retries |-> 5, fragment_retries |-> 5, socket_timeout |-> 20]

\* download_backend.py:259-270
meta_opts(cat, cookie, target_ok) ==
    LET o0 == base_meta_opts(cookie)
        o1 == IF is_youtube_url(cat) THEN DictUpdate(o0, youtube_api_opts) ELSE o0
    IN  IF is_instagram_url(cat)
        THEN DictUpdate(DictUpdate(o1, instagram_retry_opts),
                        instagram_api_opts(TRUE, target_ok))
        ELSE o1

\* download_backend.py:281-287
format_value(meta) ==
    CASE meta = "progressive" -> "fid"
      [] meta = "separate" -> "vid+aid"
      [] OTHER -> "bv*[ext=mp4]+ba[ext=m4a]/b[ext=mp4]/bv*+ba/b"
merge_value(meta) == IF meta = "progressive" THEN "none" ELSE "mp4"

\* download_backend.py:289-310
primary_opts(cat, cookie, target_ok, meta) ==
    LET o0 == DictPut(base_download_opts(YTDLP_CONCURRENT_FRAGMENTS),
                      "format", format_value(meta))
        o1 == WithCookie(WithMerge(o0, merge_value(meta)), cookie)
        o2 == IF is_youtube_url(cat) THEN DictUpdate(o1, youtube_api_opts) ELSE o1
    IN  IF is_instagram_url(cat)
        THEN DictUpdate(DictUpdate(o2, instagram_retry_opts),
                        instagram_api_opts(TRUE, target_ok))
        ELSE o2

\* download_backend.py:317-327
ig_fallback_opts(cookie, meta) ==
    WithCookie(WithMerge(DictPut(base_download_opts(YTDLP_CONCURRENT_FRAGMENTS),
                                 "format", format_value(meta)),
                         merge_value(meta)), cookie)

\* The YouTube retry keeps the concurrent fragments of the first attempt.
yt_fallback_keeps_fragments ==
    DictPut(DictUpdate(base_download_opts(YTDLP_CONCURRENT_FRAGMENTS), youtube_api_opts),
            "format", "18/best[ext=mp4]/best")

\* download_backend.py:332-339
yt_fallback_opts ==
    DictPut(DictUpdate(base_download_opts(1), youtube_api_opts),
            "format", "18/best[ext=mp4]/best")

\* One Media Service call as the log keeps it.
Call(kind, overlay, opts, ok) == [kind |-> kind, overlay |-> overlay, opts |-> opts, ok |-> ok]

\* The fallback's error is dropped and the primary error raised instead.
FallbackRaisesPrimary(primary, fallback) == primary

\* download_backend.py:328, 340: an error of the fallback download leaves
\* the except block in place of primary_err; calls are named by their index
ErrorOfFallback(primary, fallback) == fallback

\* The function ends: it returns the info of the last call, or raises.
BReturn == b_pc' = "returned" /\ b_err' = b_err
BRaise(i) == b_pc' = "raised" /\ b_err' = i

\* download_backend.py:272-276: first metadata fetch
BExtractMeta ==
    /\ b_pc = "meta"
    /\ \E ok \in BOOLEAN :
          /\ b_calls' = Append(b_calls,
                 Call("meta", "primary", meta_opts(b_cat, b_cookie, b_imp), ok))
          /\ IF ok
             THEN /\ \E m \in PlanKinds : b_meta' = m
                  /\ b_pc' = "download"
                  /\ b_err' = b_err
             ELSE /\ b_meta' = b_meta
                  /\ IF ~ is_instagram_url(b_cat)
                     THEN BRaise(Len(b_calls) + 1)                \* line 275-276
                     ELSE b_pc' = "meta_fallback" /\ b_err' = b_err
    /\ UNCHANGED <<b_cat, b_cookie, b_imp>>
    /\ UNCHANGED <<jobs_q, jobVars, workerVars, logVars, opt_out, componentVars>>

\* download_backend.py:277-279: Instagram metadata fetch with base options
BExtractMetaFallback ==
    /\ b_pc = "meta_fallback"
    /\ \E ok \in BOOLEAN :
          /\ b_calls' = Append(b_calls,
                 Call("meta", "fallback", base_meta_opts(b_cookie), ok))
          /\ IF ok
             THEN /\ \E m \in PlanKinds : b_meta' = m
                  /\ b_pc' = "download"
                  /\ b_err' = b_err
             ELSE /\ b_meta' = b_meta
                  /\ BRaise(Len(b_calls) + 1)
    /\ UNCHANGED <<b_cat, b_cookie, b_imp>>
    /\ UNCHANGED <<jobs_q, jobVars, workerVars, logVars, opt_out, componentVars>>

\* download_backend.py:312-315, 330, 342: primary download
BDownload ==
    /\ b_pc = "download"
    /\ \E ok \in BOOLEAN :
          /\ b_calls' = Append(b_calls,
                 Call("download", "primary",
                      primary_opts(b_cat, b_cookie, b_imp, b_meta), ok))
          /\ IF ok THEN BReturn
             ELSE IF is_instagram_url(b_cat)
                  THEN b_pc' = "download_ig_fallback" /\ b_err' = b_err
             ELSE IF is_youtube_url(b_cat)
                  THEN b_pc' = "download_yt_fallback" /\ b_err' = b_err
             ELSE BRaise(Len(b_calls) + 1)                        \* line 342
    /\ UNCHANGED <<b_cat, b_cookie, b_imp, b_meta>>
    /\ UNCHANGED <<jobs_q, jobVars, workerVars, logVars, opt_out, componentVars>>

\* download_backend.py:315-328: Instagram retry
BDownloadIgFallback ==
    /\ b_pc = "download_ig_fallback"
    /\ \E ok \in BOOLEAN :
          /\ b_calls' = Append(b_calls,
                 Call("download", "fallback", ig_fallback_opts(b_cookie, b_meta), ok))
          /\ IF ok THEN BReturn
             ELSE BRaise(ErrorOfFallback(Len(b_calls), Len(b_calls) + 1))
    /\ UNCHANGED <<b_cat, b_cookie, b_imp, b_meta>>
    /\ UNCHANGED <<jobs_q, jobVars, workerVars, logVars, opt_out, componentVars>>

\* download_backend.py:330-340: YouTube retry
BDownloadYtFallback ==
    /\ b_pc = "download_yt_fallback"
    /\ \E ok \in BOOLEAN :
          /\ b_calls' = Append(b_calls,
                 Call("download", "fallback", yt_fallback_opts, ok))
          /\ IF ok THEN BReturn
             ELSE BRaise(ErrorOfFallback(Len(b_calls), Len(b_calls) + 1))
    /\ UNCHANGED <<b_cat, b_cookie, b_imp, b_meta>>
    /\ UNCHANGED <<jobs_q, jobVars, workerVars, logVars, opt_out, componentVars>>

(***************************************************************************)
(* Message delivery: every call of the bot API goes through _bot_call      *)
(* (main.py:53-55), which holds the one lock bot_lock for the whole call.  *)
(* The threads are the WORKERS worker threads, which send the video        *)
(* (main.py:439-459), the failure notice (main.py:825) and the delete      *)
(* request (main.py:821), and a handler thread of the bot, which sends     *)
(* messages (main.py:73-111).                                              *)
(***************************************************************************)
\* Number of bot API calls one thread makes in a run of the model.
MaxCalls == 2

HandlerThread == WORKERS + 1
BotThreads == Workers \cup {HandlerThread}

\* The bot functions a thread passes to _bot_call.
BotFunctions(t) ==
    IF t \in Workers THEN {"send_video", "send_message", "delete_message"}
    ELSE {"send_message", "delete_message"}

\* main.py:54: "with bot_lock" lets the thread in when the lock is free
\* (an RLock also when the thread holds it already)
LockAvailable(t) == bot_lock \in {0, t}

\* Thread t reaches _bot_call(fn, ...) and asks for the lock.
BotCall(t, fn) ==
    /\ d_pc[t] = "idle"
    /\ d_done[t] < MaxCalls
    /\ fn \in BotFunctions(t)
    /\ d_pc' = [d_pc EXCEPT ![t] = "wait"]
    /\ d_fn' = [d_fn EXCEPT ![t] = fn]
    /\ UNCHANGED <<bot_lock, d_done, mainVars, prefsVars, filesVars, plannerVars, welcomeVars>>

\* main.py:444-446: _send_video_no_reply raises for a file over
\* MAX_SEND_BYTES before it reaches _bot_call
SendVideoTooLarge(t) ==
    /\ t \in Workers
    /\ d_pc[t] = "idle"
    /\ d_done[t] < MaxCalls
    /\ d_fn' = [d_fn EXCEPT ![t] = "too_large"]
    /\ d_done' = [d_done EXCEPT ![t] = @ + 1]
    /\ UNCHANGED <<bot_lock, d_pc, mainVars, prefsVars, filesVars, plannerVars, welcomeVars>>

\* main.py:54: the thread acquires bot_lock and enters fn
BotLockAcquire(t) ==
    /\ d_pc[t] = "wait"
    /\ LockAvailable(t)
    /\ bot_lock' = t
    /\ d_pc' = [d_pc EXCEPT ![t] = "call"]
    /\ UNCHANGED <<d_fn, d_done, mainVars, prefsVars, filesVars, plannerVars, welcomeVars>>

\* main.py:54-55: fn returns or raises; leaving the with block releases
\* the lock either way
BotCallEnds(t) ==
    /\ d_pc[t] = "call"
    /\ bot_lock' = IF bot_lock = t THEN 0 ELSE bot_lock
    /\ d_pc' = [d_pc EXCEPT ![t] = "idle"]
    /\ d_done' = [d_done EXCEPT ![t] = @ + 1]
    /\ UNCHANGED <<d_fn, mainVars, prefsVars, filesVars, plannerVars, welcomeVars>>

DeliveryIdle ==
    /\ bot_lock = 0
    /\ d_pc = [t \in BotThreads |-> "idle"]
    /\ d_fn = [t \in BotThreads |-> "none"]
    /\ d_done = [t \in BotThreads |-> 0]

(***************************************************************************)
(* Preference store (main.py:521-637): the cache _prefs_cache, loaded on   *)
(* first use, the file prefs.json it is saved to through a temporary file, *)
(* and the lock _prefs_lock.  The callers are handler threads of the bot;  *)
(* a call may find the disk failing (open, write or replace raises) and    *)
(* the process may die at any point.                                       *)
(***************************************************************************)
\* Number of preference-store calls in one run of the model.
MaxPrefCalls == 2

\* main.py:47: handlers run on the threads of the bot (threaded=True)
HandlerThreads == {WORKERS + 1, WORKERS + 2}
PrefChats == {"c1"}
PrefUsers == {"u1", "u2"}
PrefPairs == PrefChats \X PrefUsers

\* The calls of the store that handlers make.
PrefOps ==
    [name : {"toggle_opt_out", "is_opted_out"}, chat : PrefChats, user : PrefUsers]
    \cup [name : {"mark_group_welcomed"}, chat : PrefChats, user : {"-"}]
    \cup [name : {"mark_private_welcomed"}, chat : {"-"}, user : PrefUsers]
NoOp == [name |-> "none", chat |-> "-", user |-> "-"]

\* A file by its kind: "absent", "corrupt" (not a JSON object), "partial"
\* (opened for writing and not written to its end) or "doc" with the maps
\* of the document.
File(k, o, g, p) ==
    [kind |-> k, opt_out |-> o, welcomed_groups |-> g, welcomed_private |-> p]
NoDoc(k) == File(k, EmptyDict, EmptyDict, EmptyDict)

\* main.py:576: json.dump(_prefs_cache, f) written to its end
CacheDoc == File("doc", opt_out, welcomed_groups, welcomed_private)

\* Documents of the persisted layout: chat -> (user -> bool), for any users.
WellFormedOptOut ==
    UNION {[C -> UNION {[U -> BOOLEAN] : U \in SUBSET PrefUsers}] : C \in SUBSET PrefChats}
\* What can lie at PREFS_PATH when the bot starts.
StartFiles ==
    {NoDoc("absent"), NoDoc("corrupt")}
    \cup {File("doc", o, g, EmptyDict) :
            o \in WellFormedOptOut, g \in {EmptyDict, [c \in PrefChats |-> TRUE]}}

\* The save writes prefs.json in place.
SaveInPlace == "canonical"

\* main.py:574-575: the save writes to PREFS_PATH + ".tmp"
SaveTarget == "tmp"

BoolStr(b) == IF b THEN "TRUE" ELSE "FALSE"

\* The with statement enters without the lock.
PrefsLockIgnored(t) == TRUE

\* "with _prefs_lock" (main.py:522, 530): an RLock
PrefsLockAvailable(t) == p_lock \in {0, t}

\* A handler thread calls one of the functions of the store.
PrefCall(t, op) ==
    /\ ~ p_crashed
    /\ p_pc[t] = "idle"
    /\ p_calls < MaxPrefCalls
    /\ p_calls' = p_calls + 1
    /\ p_pc' = [p_pc EXCEPT ![t] = "ensure"]
    /\ p_op' = [p_op EXCEPT ![t] = op]
    /\ p_ret' = [p_ret EXCEPT ![t] = "none"]
    /\ UNCHANGED <<opt_out, cacheVars, p_file, p_tmp, p_lock, p_crashed, p_file0, p_rets,
                   outsidePrefs>>

\* main.py:525-570 _ensure_prefs_loaded up to its save: nothing to do with
\* the cache loaded; a document is taken as it is (its three maps are
\* dicts); a missing or unreadable file gives the defaults, which are saved
ensure_prefs_loaded(t) ==
    /\ ~ p_crashed
    /\ p_pc[t] = "ensure"
    /\ PrefsLockAvailable(t)
    /\ IF p_loaded
       THEN /\ p_pc' = [p_pc EXCEPT ![t] = "body"]
            /\ UNCHANGED <<opt_out, cacheVars, p_lock>>
       ELSE IF p_file.kind = "doc"
       THEN /\ opt_out' = p_file.opt_out
            /\ welcomed_groups' = p_file.welcomed_groups
            /\ welcomed_private' = p_file.welcomed_private
            /\ p_loaded' = TRUE
            /\ p_pc' = [p_pc EXCEPT ![t] = "body"]
            /\ UNCHANGED p_lock
       ELSE /\ opt_out' = EmptyDict
            /\ welcomed_groups' = EmptyDict
            /\ welcomed_private' = EmptyDict
            /\ p_loaded' = TRUE
            /\ p_lock' = t
            /\ p_pc' = [p_pc EXCEPT ![t] = "ensure_open"]
    /\ UNCHANGED <<p_file, p_tmp, p_op, p_ret, p_calls, p_crashed, p_file0, p_rets,
                   outsidePrefs>>

\* The results of the toggles of the pair of thread t's call, with the
\* result r of this call added when the call is a toggle.
Logged(t, r) ==
    IF p_op[t].name = "toggle_opt_out"
    THEN [p_rets EXCEPT ![<<p_op[t].chat, p_op[t].user>>] = Append(@, r)]
    ELSE p_rets

\* The body of the call under "with _prefs_lock": _is_opted_out
\* (main.py:580-586) reads and returns; _toggle_opt_out (589-611),
\* _mark_group_welcomed (620-624) and _mark_private_welcomed (633-637)
\* change the cache and go on to _save_prefs_locked with the lock held
PrefBody(t) ==
    /\ ~ p_crashed
    /\ p_pc[t] = "body"
    /\ PrefsLockAvailable(t)
    /\ LET op == p_op[t] IN
       CASE op.name = "is_opted_out" ->
              /\ p_ret' = [p_ret EXCEPT ![t] = BoolStr(is_opted_out(op.chat, op.user))]
              /\ p_pc' = [p_pc EXCEPT ![t] = "idle"]
              /\ p_op' = [p_op EXCEPT ![t] = NoOp]
              /\ UNCHANGED <<opt_out, cacheVars, p_lock>>
         [] op.name = "toggle_opt_out" ->
              /\ opt_out' = toggle_opt_out(op.chat, op.user)
              /\ p_ret' = [p_ret EXCEPT ![t] = BoolStr(toggle_new_value(op.chat, op.user))]
              /\ p_lock' = t
              /\ p_pc' = [p_pc EXCEPT ![t] = "body_open"]
              /\ UNCHANGED <<cacheVars, p_op>>
         [] op.name = "mark_group_welcomed" ->
              /\ welcomed_groups' = DictPut(welcomed_groups, op.chat, TRUE)
              /\ p_ret' = [p_ret EXCEPT ![t] = "returned"]
              /\ p_lock' = t
              /\ p_pc' = [p_pc EXCEPT ![t] = "body_open"]
              /\ UNCHANGED <<opt_out, welcomed_private, p_loaded, p_op>>
         [] op.name = "mark_private_welcomed" ->
              /\ welcomed_private' = DictPut(welcomed_private, op.user, TRUE)
              /\ p_ret' = [p_ret EXCEPT ![t] = "returned"]
              /\ p_lock' = t
              /\ p_pc' = [p_pc EXCEPT ![t] = "body_open"]
              /\ UNCHANGED <<opt_out, welcomed_groups, p_loaded, p_op>>
    /\ UNCHANGED <<p_file, p_tmp, p_calls, p_crashed, p_file0, p_rets, outsidePrefs>>

\* main.py:603-608: the opt_out map after _toggle_opt_out has stored
\* new_value for the pair
toggle_store(chat_id, user_id, new_value) ==
    LET users == DictGet(opt_out, chat_id, EmptyDict)
        users1 == DictPut(users, user_id, new_value)
        users2 == IF ~ new_value THEN DictPop(users1, user_id) ELSE users1
    IN  IF DOMAIN users2 = {} THEN DictPop(opt_out, chat_id)
        ELSE DictPut(opt_out, chat_id, users2)

\* main.py:596-602: _toggle_opt_out enters "with _prefs_lock" and reads the
\* entry of the pair: new_value is what it will return
ToggleRead(t) ==
    /\ ~ p_crashed
    /\ p_pc[t] = "body"
    /\ p_op[t].name = "toggle_opt_out"
    /\ PrefsLockAvailable(t)
    /\ p_lock' = t
    /\ p_ret' = [p_ret EXCEPT ![t] = BoolStr(toggle_new_value(p_op[t].chat, p_op[t].user))]
    /\ p_pc' = [p_pc EXCEPT ![t] = "toggle_store"]
    /\ UNCHANGED <<opt_out, cacheVars, p_file, p_tmp, p_op, p_calls, p_crashed, p_file0,
                   p_rets, outsidePrefs>>

\* main.py:603-610: it stores new_value, or pops the entry and the chat left
\* empty, and goes on to _save_prefs_locked with the lock held
ToggleStore(t) ==
    /\ ~ p_crashed
    /\ p_pc[t] = "toggle_store"
    /\ opt_out' = toggle_store(p_op[t].chat, p_op[t].user, p_ret[t] = "TRUE")
    /\ p_pc' = [p_pc EXCEPT ![t] = "body_open"]
    /\ UNCHANGED <<cacheVars, p_file, p_tmp, p_lock, p_op, p_ret, p_calls, p_crashed,
                   p_file0, p_rets, outsidePrefs>>

\* An exception leaves _save_prefs_locked: the with block releases the lock
\* and the call raises; the cache keeps what the call put into it.
SaveRaises(t) ==
    /\ p_lock' = 0
    /\ p_ret' = [p_ret EXCEPT ![t] = "raised"]
    /\ p_rets' = IF p_pc[t] \in {"body_open", "body_write", "body_replace"}
                 THEN Logged(t, "raised") ELSE p_rets
    /\ p_pc' = [p_pc EXCEPT ![t] = "idle"]
    /\ p_op' = [p_op EXCEPT ![t] = NoOp]

\* main.py:575: open(tmp, "w") creates or truncates the file, or raises
SaveOpen(t, ok) ==
    /\ ~ p_crashed
    /\ p_pc[t] \in {"ensure_open", "body_open"}
    /\ IF ok
       THEN /\ IF SaveTarget = "tmp"
               THEN p_tmp' = NoDoc("partial") /\ UNCHANGED p_file
               ELSE p_file' = NoDoc("partial") /\ UNCHANGED p_tmp
            /\ p_pc' = [p_pc EXCEPT ![t] = IF @ = "ensure_open" THEN "ensure_write"
                                                                 ELSE "body_write"]
            /\ UNCHANGED <<p_lock, p_op, p_ret, p_rets>>
       ELSE SaveRaises(t) /\ UNCHANGED <<p_file, p_tmp>>
    /\ UNCHANGED <<opt_out, cacheVars, p_calls, p_crashed, p_file0, outsidePrefs>>

\* main.py:576: json.dump writes the cache to the open file, or raises with
\* the file written in part
SaveWrite(t, ok) ==
    /\ ~ p_crashed
    /\ p_pc[t] \in {"ensure_write", "body_write"}
    /\ IF ok
       THEN /\ IF SaveTarget = "tmp"
               THEN p_tmp' = CacheDoc /\ UNCHANGED p_file
               ELSE p_file' = CacheDoc /\ UNCHANGED p_tmp
            /\ p_pc' = [p_pc EXCEPT ![t] = IF @ = "ensure_write" THEN "ensure_replace"
                                                                  ELSE "body_replace"]
            /\ UNCHANGED <<p_lock, p_op, p_ret, p_rets>>
       ELSE SaveRaises(t) /\ UNCHANGED <<p_file, p_tmp>>
    /\ UNCHANGED <<opt_out, cacheVars, p_calls, p_crashed, p_file0, outsidePrefs>>

\* main.py:577: os.replace(tmp, PREFS_PATH) puts the temporary file in the
\* place of prefs.json in one step, or raises; after it the with block ends:
\* _ensure_prefs_loaded returns to its caller, the other calls return
SaveReplace(t, ok) ==
    /\ ~ p_crashed
    /\ p_pc[t] \in {"ensure_replace", "body_replace"}
    /\ IF ok
       THEN /\ IF SaveTarget = "tmp"
               THEN p_file' = p_tmp /\ p_tmp' = NoDoc("absent")
               ELSE UNCHANGED <<p_file, p_tmp>>
            /\ p_lock' = 0
            /\ p_pc' = [p_pc EXCEPT ![t] = IF @ = "ensure_replace" THEN "body" ELSE "idle"]
            /\ p_rets' = IF p_pc[t] = "body_replace" THEN Logged(t, p_ret[t]) ELSE p_rets
            /\ p_op' = [p_op EXCEPT ![t] = IF p_pc[t] = "body_replace" THEN NoOp ELSE @]
            /\ UNCHANGED p_ret
       ELSE SaveRaises(t) /\ UNCHANGED <<p_file, p_tmp>>
    /\ UNCHANGED <<opt_out, cacheVars, p_calls, p_crashed, p_file0, outsidePrefs>>

\* The process dies (killed, power loss) while a thread is in
\* _save_prefs_locked: no thread takes another step and the files stay as
\* they are.
Crash ==
    /\ ~ p_crashed
    /\ \E t \in HandlerThreads :
          p_pc[t] \in {"ensure_open", "ensure_write", "ensure_replace",
                       "body_open", "body_write", "body_replace"}
    /\ p_crashed' = TRUE
    /\ UNCHANGED <<opt_out, cacheVars, p_file, p_tmp, p_lock, p_pc, p_op, p_ret, p_calls,
                   p_file0, p_rets, outsidePrefs>>

\* The store when no preference-store call is modelled: the cache is
\* loaded (opt_out holds its map) and no handler is in a call.
PrefsIdle ==
    /\ welcomed_groups = EmptyDict
    /\ welcomed_private = EmptyDict
    /\ p_loaded = TRUE
    /\ p_file = NoDoc("absent")
    /\ p_tmp = NoDoc("absent")
    /\ p_lock = 0
    /\ p_pc = [t \in HandlerThreads |-> "idle"]
    /\ p_op = [t \in HandlerThreads |-> NoOp]
    /\ p_ret = [t \in HandlerThreads |-> "none"]
    /\ p_calls = 0
    /\ p_crashed = FALSE
    /\ p_file0 = NoDoc("absent")
    /\ p_rets = [pair \in PrefPairs |-> << >>]

\* main.py:521-522 at module load: the cache is empty, the lock free, and
\* prefs.json is whatever the disk holds.
PrefsAtStart ==
    /\ opt_out = EmptyDict
    /\ welcomed_groups = EmptyDict
    /\ welcomed_private = EmptyDict
    /\ p_loaded = FALSE
    /\ p_file \in StartFiles
    /\ p_tmp = NoDoc("absent")
    /\ p_lock = 0
    /\ p_pc = [t \in HandlerThreads |-> "idle"]
    /\ p_op = [t \in HandlerThreads |-> NoOp]
    /\ p_ret = [t \in HandlerThreads |-> "none"]
    /\ p_calls = 0
    /\ p_crashed = FALSE
    /\ p_file0 = p_file
    /\ p_rets = [pair \in PrefPairs |-> << >>]

(***************************************************************************)
(* Output folder: _is_good_downloaded_file, _find_downloaded_file and      *)
(* _cleanup_files (main.py:141-233).  A file name is a sequence of         *)
(* symbols: the characters of the prefix it was written for, then "." and  *)
(* extensions, as the outtmpl "<prefix>.%(ext)s" (main.py:405) makes it.   *)
(* The path of a file is its name, the folder being fixed.                 *)
(***************************************************************************)
\* Number of files in the folder, and of entries of requested_downloads.
MaxFiles == 2
MaxReqs == 1

NONE == << >>
\* Output prefixes: one is a proper string prefix of another.
Prefixes == {<<"a">>, <<"a", "b">>}
\* What follows "<prefix>." in the names the Media Service writes.
Suffixes == {<<"mp4">>, <<"mp4", ".", "part">>, <<"M4A">>, <<"webm">>}
FileName(prefix, suffix) == prefix \o <<".">> \o suffix
FileSizes == {0, 1}

\* main.py:38
AUDIO_ONLY_EXTS == {"m4a", "mp3", "aac", "ogg", "opus", "wav", "flac"}
\* main.py:40
PREFERRED_VIDEO_EXT == <<".", "mp4">>

\* str.startswith, str.endswith, str.lower
startswith(s, p) == Len(p) <= Len(s) /\ SubSeq(s, 1, Len(p)) = p
endswith(s, e) == Len(e) <= Len(s) /\ SubSeq(s, Len(s) - Len(e) + 1, Len(s)) = e
LowerSymbol(x) == IF x = "M4A" THEN "m4a" ELSE x
lower(s) == [i \in 1..Len(s) |-> LowerSymbol(s[i])]
\* os.path.splitext(fp)[1] without its dot, "" when the name has none
splitext(s) == IF Len(s) >= 3 /\ s[Len(s) - 1] = "." THEN s[Len(s)] ELSE ""

\* The first element of a list of matches, NONE when nothing matched: the
\* "for fp in ...: if ...: return fp" loops of the resolver.
First(seq) == IF seq = << >> THEN NONE ELSE Head(seq)

FileNames == {f.name : f \in folder}
getsize(fp) == (CHOOSE f \in folder : f.name = fp).size

\* Every path that was reported counts as a finished file.
is_any_file(fp) == fp # NONE

\* main.py:141-155
is_good_downloaded_file(fp) ==
    /\ fp # NONE
    /\ fp \in FileNames
    /\ ~ endswith(lower(fp), <<".", "part">>)
    /\ ~ endswith(lower(fp), <<".", "ytdl">>)
    /\ getsize(fp) > 0

IsPreferredVideo(fp) == endswith(lower(fp), PREFERRED_VIDEO_EXT)
IsNotAudio(fp) == LowerSymbol(splitext(fp)) # "" /\ LowerSymbol(splitext(fp)) \notin AUDIO_ONLY_EXTS

\* main.py:187-217, "2) fallback: search by prefix in output folder", with
\* the names in the order os.listdir gave them
find_in_folder(prefix, listing) ==
    LET Mine(fn) == startswith(fn, prefix)
        files == SelectSeq(listing, Mine)
        GoodVideo(fp) == IsPreferredVideo(fp) /\ is_good_downloaded_file(fp)
        GoodNotAudio(fp) == is_good_downloaded_file(fp) /\ IsNotAudio(fp)
    IN  IF files = << >> THEN NONE
        ELSE IF First(SelectSeq(files, GoodVideo)) # NONE THEN First(SelectSeq(files, GoodVideo))
        ELSE IF First(SelectSeq(files, GoodNotAudio)) # NONE THEN First(SelectSeq(files, GoodNotAudio))
        ELSE First(SelectSeq(files, is_good_downloaded_file))

\* main.py:158-219 _find_downloaded_file.  info is None ("none", the get
\* raises and the except clause passes on to the folder search), a dict
\* without requested_downloads ("missing") or with a list of entries, each
\* given by its filepath (NONE when the entry has none).  The first block
\* returns from inside its try, with a path or with None.
find_downloaded_file(info, prefix, listing) ==
    IF info.kind = "none" THEN find_in_folder(prefix, listing)
    ELSE
        LET reqs == IF info.kind = "missing" THEN << >> ELSE info.reqs
            candidates == SelectSeq(reqs, is_good_downloaded_file)
        IN  IF First(SelectSeq(candidates, IsPreferredVideo)) # NONE THEN First(SelectSeq(candidates, IsPreferredVideo))
            ELSE IF First(SelectSeq(candidates, IsNotAudio)) # NONE THEN First(SelectSeq(candidates, IsNotAudio))
            ELSE IF candidates # << >> THEN candidates[1]
            ELSE NONE

\* The orders in which os.listdir can give the names of the folder.
Listings ==
    {l \in [1..Cardinality(FileNames) -> FileNames] :
        \A i, j \in 1..Cardinality(FileNames) : i # j => l[i] # l[j]}

SeqsUpTo(S, n) == UNION {[1..k -> S] : k \in 0..n}
\* The results ydl.extract_info can hand to _find_downloaded_file for a
\* job with this prefix (main.py:795-796).
Infos(prefix) ==
    {[kind |-> k, reqs |-> << >>] : k \in {"none", "missing"}}
    \cup {[kind |-> "list", reqs |-> r] :
            r \in SeqsUpTo({FileName(prefix, x) : x \in Suffixes} \cup {NONE}, MaxReqs)}
NoInfo == [kind |-> "none", reqs |-> << >>]
FileOp(n, prefix, info, before) ==
    [name |-> n, prefix |-> prefix, info |-> info, before |-> before]

\* The Media Service writes (or leaves behind) a file for a job's prefix.
WriteFile(prefix, suffix, size) ==
    /\ Cardinality(folder) < MaxFiles
    /\ FileName(prefix, suffix) \notin FileNames
    /\ folder' = folder \cup {[name |-> FileName(prefix, suffix), owner |-> prefix,
                               size |-> size]}
    /\ f_found' = NONE
    /\ f_op' = FileOp("write", NONE, NoInfo, {})
    /\ f_step' = "none"
    /\ UNCHANGED <<mainVars, deliveryVars, prefsVars, plannerVars, welcomeVars>>

\* main.py:798-804: what _process_job does with the path it got: it raises
\* for no path, for a path that does not exist and for an audio-only
\* extension, and goes on to send the file otherwise
check_file(file_path) ==
    IF file_path = NONE \/ file_path \notin FileNames THEN "OutputNotFound"
    ELSE IF LowerSymbol(splitext(file_path)) \in AUDIO_ONLY_EXTS THEN "AudioOnly"
    ELSE "send"

\* main.py:796-804: a worker resolves the output of its job and checks it.  The call leaves
\* the folder as it is, so a second call in a row reaches no state that a
\* first call does not reach: it is left out.
FindDownloadedFile(prefix, info) ==
    /\ f_op.name # "find"
    /\ \E listing \in Listings : f_found' = find_downloaded_file(info, prefix, listing)
    /\ f_step' = check_file(f_found')
    /\ f_op' = FileOp("find", prefix, info, folder)
    /\ UNCHANGED <<folder, mainVars, deliveryVars, prefsVars, plannerVars, welcomeVars>>

\* What becomes of a file that _cleanup_files comes to: "removed", by
\* os.remove or by someone else before os.path.exists looks (main.py:228,
\* nothing is left to do); "gone", it goes between the look and os.remove,
\* which raises; "refused", os.remove raises and the file stays.
Fates == {"removed", "gone", "refused"}
\* main.py:229: what os.remove(fp) raises, "none" when nothing
remove_error(fate) ==
    CASE fate = "gone" -> "FileNotFoundError"
      [] fate = "refused" -> "PermissionError"
      [] OTHER -> "none"

\* The clause lets every error through.
catches_nothing(e) == FALSE

\* main.py:230-231: "except Exception: pass" around the removal of one file
remove_catches(e) == e \in {"FileNotFoundError", "PermissionError"}

\* main.py:232-233: "except Exception: pass" around the whole function
cleanup_catches(e) == e \in {"FileNotFoundError", "PermissionError"}

\* main.py:224-231: the loop over the names os.listdir gave.  An error that
\* the inner clause does not catch leaves the loop at that name.  It yields
\* the names it removed, whether a removal was refused, and the error that
\* left the loop ("none" when the loop came to its end).
cleanup_loop(listing, prefix, fate) ==
    LET error(i) == IF startswith(listing[i], prefix)
                    THEN remove_error(fate[listing[i]]) ELSE "none"
        leaves == {i \in 1..Len(listing) : error(i) # "none" /\ ~ remove_catches(error(i))}
        last == IF leaves = {} THEN Len(listing)
                ELSE CHOOSE i \in leaves : \A j \in leaves : i <= j
        reached == {listing[i] : i \in 1..last} \cap DOMAIN fate
    IN  [removed |-> {fn \in reached : fate[fn] = "removed"},
         refused |-> \E fn \in reached : fate[fn] = "refused",
         error |-> IF leaves = {} THEN "none" ELSE error(last)]

\* The orders of the names that make a difference to the loop: any one
\* order when no error leaves the loop, since it then comes to every name.
LoopOrders(fate, listings) ==
    IF \A fn \in DOMAIN fate : remove_error(fate[fn]) # "none" => remove_catches(remove_error(fate[fn]))
    THEN {CHOOSE l \in listings : TRUE}
    ELSE listings

\* main.py:222-233 _cleanup_files.  os.listdir raises when the folder is
\* missing; otherwise every name that starts with the prefix is removed
\* unless os.remove raises for it.  f_step tells how the call ended.
cleanup_files(prefix) ==
    /\ \E missing \in {m \in BOOLEAN : m => folder = {}} :
       \E listings \in {Listings} :
       \E fate \in [{fn \in FileNames : startswith(fn, prefix)} -> Fates] :
       \E listing \in LoopOrders(fate, listings) :
          LET loop == IF missing
                      THEN [removed |-> {}, refused |-> FALSE, error |-> "FileNotFoundError"]
                      ELSE cleanup_loop(listing, prefix, fate)
              away == {fn \in DOMAIN fate : fate[fn] = "gone"}
          IN  /\ folder' = {f \in folder : f.name \notin loop.removed \cup away}
              /\ f_step' = IF loop.error # "none" /\ ~ cleanup_catches(loop.error)
                            THEN "CleanupRaised"
                            ELSE IF loop.refused THEN "DeletionRefused"
                            ELSE "none"
    /\ f_found' = NONE
    /\ f_op' = FileOp("cleanup", prefix, NoInfo, folder)
    /\ UNCHANGED <<mainVars, deliveryVars, prefsVars, plannerVars, welcomeVars>>

\* The folder when no operation on it is modelled.
FilesIdle ==
    /\ folder = {}
    /\ f_found = NONE
    /\ f_op = FileOp("write", NONE, NoInfo, {})
    /\ f_step = "none"

(***************************************************************************)
(* Format planners.  main.py chooses the format of a download with         *)
(* _choose_format_for_url (236-399); download_backend.py has               *)
(* build_video_plan_like_main1 (18-150).  A metadata snapshot is the list  *)
(* meta["formats"]; a format is a record of the fields the planners read.  *)
(* A numeric field is 0 when the format does not carry it (None) or        *)
(* carries 0: the planners treat the two alike ("or 0", "> 0").  A list of *)
(* format ids stands for the format string: <<id>> for "id", <<v, a>> for  *)
(* "v+a", << >> for the None a picker returns when it finds nothing.       *)
(***************************************************************************)
\* main.py:26 reads config.max_filesize (50_000_000 by default); the model
\* runs the same comparisons with a small ceiling.
MAX_SEND_BYTES == 3
\* main.py:355 tries videos[:30] and main.py:360 audios[:20]; the model
\* runs the same loops with short slices so that both cuts are reached.
TOP_VIDEOS == 2
TOP_AUDIOS == 1
\* Longest list of formats of a metadata snapshot given to the planners.
MaxFormats == 4
\* Longest list of video-only and audio-only formats given to
\* _pick_best_separate_mp4_m4a on its own.
MaxStreams == 4

\* Python's None as the value of format_id, and str() of it
None == "<None>"
str(x) == IF x = None THEN "None" ELSE x

\* Codec strings, as sequences of their dot-separated parts.
AVC1 == <<"avc1", "64001F">>
VP9 == <<"vp09", "00">>
MP4A == <<"mp4a", "40", "2">>
CODEC_NONE == <<"none">>

Fmt(ext, vcodec, acodec, filesize, filesize_approx, height, tbr, has_id) ==
    [ext |-> ext, vcodec |-> vcodec, acodec |-> acodec, filesize |-> filesize,
     filesize_approx |-> filesize_approx, height |-> height, fps |-> 30,
     tbr |-> tbr, abr |-> 0, has_id |-> has_id]

\* Sizes a format can declare: within the ceiling, or over it.
OverLimit == MAX_SEND_BYTES + 1

\* Formats with video and audio in one stream.
ProgressiveShapes ==
    {Fmt("mp4", AVC1, MP4A, 1, 0, 1, 1, TRUE),
     Fmt("mp4", VP9, MP4A, 1, 0, 1, 1, TRUE),
     Fmt("mp4", AVC1, MP4A, OverLimit, 0, 2, 1, TRUE),
     Fmt("mp4", AVC1, MP4A, 0, OverLimit, 2, 1, TRUE),
     Fmt("mp4", AVC1, MP4A, 0, 0, 2, 1, TRUE),
     Fmt("mp4", VP9, MP4A, 1, 0, 2, 1, FALSE)}
\* Video-only and audio-only formats.
VideoShapes ==
    {Fmt("mp4", AVC1, CODEC_NONE, 2, 0, 2, 1, TRUE),
     Fmt("mp4", AVC1, CODEC_NONE, 1, 0, 1, 1, TRUE)}
AudioShapes ==
    {Fmt("m4a", CODEC_NONE, MP4A, 2, 0, 0, 2, TRUE),
     Fmt("m4a", CODEC_NONE, MP4A, 1, 0, 0, 1, TRUE)}
FormatShapes == ProgressiveShapes \cup VideoShapes \cup AudioShapes
StreamShapes ==
    VideoShapes \cup AudioShapes
        \cup {Fmt("mp4", AVC1, CODEC_NONE, OverLimit, 0, 3, 1, TRUE),
              Fmt("m4a", CODEC_NONE, MP4A, 0, 0, 0, 3, TRUE)}

\* The formats of a snapshot: each format that carries an id carries its
\* own, here the number of its place in the list.
WithIds(shapes) ==
    [i \in 1..Len(shapes) |->
        [f |-> shapes[i], format_id |-> IF shapes[i].has_id THEN ToString(i) ELSE None]]
Metas(shapes, n) == {WithIds(s) : s \in UNION {[1..k -> shapes] : k \in 0..n}}

\* Tuple comparison of Python: a > b for tuples of equal length
KeyGreater(a, b) ==
    \E i \in 1..Len(a) : a[i] > b[i] /\ \A j \in 1..(i - 1) : a[j] = b[j]

\* One candidate of a picker: the id it would return, its size and its key.
Item(id, size, key) == [id |-> id, size |-> size, key |-> key]
NoItem == Item(None, 0, << >>)

\* The loop "if best is None or key > best_key: best = ..." over the
\* candidates in list order (main.py:293-295, download_backend.py:76-82)
RECURSIVE keep_best(_, _)
keep_best(items, best) ==
    IF items = << >> THEN best
    ELSE keep_best(Tail(items),
                   IF best = NoItem \/ KeyGreater(Head(items).key, best.key)
                   THEN Head(items) ELSE best)

\* main.py:236-248
format_size_bytes(fmt) ==
    IF fmt.f.filesize > 0 THEN fmt.f.filesize
    ELSE IF fmt.f.filesize_approx > 0 THEN fmt.f.filesize_approx
    ELSE 0

\* main.py:251-263
prefer_codec_score(vcodec) ==
    IF startswith(lower(vcodec), <<"avc1">>) THEN 30
    ELSE IF startswith(lower(vcodec), <<"hev1">>) \/ startswith(lower(vcodec), <<"hvc1">>) THEN 20
    ELSE IF startswith(lower(vcodec), <<"av01">>) THEN 10
    ELSE 0

\* main.py:287-292 and 322-329: key = (height, fps, tbr, codec_score)
quality_key(fmt) == <<fmt.f.height, fmt.f.fps, fmt.f.tbr, prefer_codec_score(fmt.f.vcodec)>>

\* main.py:276-285: the formats the progressive pick looks at
IsProgressiveWithinLimit(fmt) ==
    /\ fmt.f.ext = "mp4"
    /\ ~ (fmt.f.vcodec = CODEC_NONE \/ fmt.f.acodec = CODEC_NONE)
    /\ format_size_bytes(fmt) > 0
    /\ ~ (format_size_bytes(fmt) > MAX_SEND_BYTES)

ProgressiveItem(fmt) == Item(str(fmt.format_id), format_size_bytes(fmt), quality_key(fmt))

\* main.py:266-299 _pick_best_progressive_mp4
pick_best_progressive_mp4(formats) ==
    LET seen == SelectSeq(formats, IsProgressiveWithinLimit)
        best == keep_best([i \in 1..Len(seen) |-> ProgressiveItem(seen[i])], NoItem)
    IN  IF best = NoItem THEN << >> ELSE <<best.id>>

\* main.py:319-321: a video-only mp4 of known size
IsVideoOnly(fmt) ==
    /\ fmt.f.ext = "mp4" /\ fmt.f.vcodec # CODEC_NONE /\ fmt.f.acodec = CODEC_NONE
    /\ format_size_bytes(fmt) > 0
\* main.py:334-336: an audio-only m4a or mp4 of known size; the test is
\* reached by the formats the video test did not take
IsAudioOnly(fmt) ==
    /\ ~ (fmt.f.ext = "mp4" /\ fmt.f.vcodec # CODEC_NONE /\ fmt.f.acodec = CODEC_NONE)
    /\ fmt.f.vcodec = CODEC_NONE /\ fmt.f.acodec # CODEC_NONE /\ fmt.f.ext \in {"m4a", "mp4"}
    /\ format_size_bytes(fmt) > 0

\* main.py:326-330
VideoItem(fmt) == Item(str(fmt.format_id), format_size_bytes(fmt), quality_key(fmt))
\* main.py:337-342: key = abr, or tbr when the format has no abr
AudioItem(fmt) ==
    Item(str(fmt.format_id), format_size_bytes(fmt),
         <<IF fmt.f.abr # 0 THEN fmt.f.abr ELSE fmt.f.tbr>>)

\* The list is left in the order of the formats.
keep_order(items) == items

\* main.py:350-351 list.sort(key=..., reverse=True): greatest key first,
\* items of equal keys in the order they had (the sort is stable)
RECURSIVE sort_desc(_)
sort_desc(items) ==
    IF items = << >> THEN << >>
    ELSE LET n == Len(items)
             rest == sort_desc(SubSeq(items, 1, n - 1))
             k == Cardinality({i \in 1..Len(rest) : ~ KeyGreater(items[n].key, rest[i].key)})
         IN  SubSeq(rest, 1, k) \o <<items[n]>> \o SubSeq(rest, k + 1, Len(rest))

\* items[:n]
slice(items, n) == SubSeq(items, 1, IF Len(items) < n THEN Len(items) ELSE n)

\* main.py:302-364 _pick_best_separate_mp4_m4a
pick_best_separate_mp4_m4a(formats) ==
    LET vs == SelectSeq(formats, IsVideoOnly)
        as == SelectSeq(formats, IsAudioOnly)
        videos == slice(sort_desc([i \in 1..Len(vs) |-> VideoItem(vs[i])]), TOP_VIDEOS)
        audios == slice(sort_desc([i \in 1..Len(as) |-> AudioItem(as[i])]), TOP_AUDIOS)
        fit(i, j) == /\ ~ (videos[i].size >= MAX_SEND_BYTES)
                     /\ audios[j].size <= MAX_SEND_BYTES - videos[i].size
        tries == {p \in (1..Len(videos)) \X (1..Len(audios)) : fit(p[1], p[2])}
        first == CHOOSE p \in tries :
                    \A q \in tries : p[1] < q[1] \/ (p[1] = q[1] /\ p[2] <= q[2])
    IN  IF vs = << >> \/ as = << >> THEN << >>                       \* line 347-348
        ELSE IF tries = {} THEN << >>                                \* line 364
        ELSE <<videos[first[1]].id, audios[first[2]].id>>            \* line 362

\* What _choose_format_for_url returns: (format_spec, merge_output_format).
\* selector is TRUE when format_spec is the format expression of main.py:398.
Choice(format_spec, selector, merge) ==
    [format_spec |-> format_spec, selector |-> selector, merge_output_format |-> merge]
NotCalled == Choice(<< >>, FALSE, "not called")
SelectorChoice == Choice(<< >>, TRUE, "mp4")

\* main.py:383-399: the choice made of a snapshot
choose_format(formats) ==
    IF pick_best_progressive_mp4(formats) # << >>
    THEN Choice(pick_best_progressive_mp4(formats), FALSE, None)
    ELSE IF pick_best_separate_mp4_m4a(formats) # << >>
    THEN Choice(pick_best_separate_mp4_m4a(formats), FALSE, "mp4")
    ELSE SelectorChoice

\* Every video codec ranks the same.
rank_one(vcodec) == 1

\* download_backend.py:43-45
vcodec_pref_rank(vcodec) == IF startswith(vcodec, <<"avc1">>) THEN 2 ELSE 1
\* download_backend.py:48-50
acodec_pref_rank(acodec) == IF startswith(acodec, <<"mp4a">>) THEN 2 ELSE 1

\* download_backend.py:58-65: "if not fid: continue" skips a format
\* without an id
IsProgressive(fmt) ==
    /\ fmt.f.ext = "mp4"
    /\ ~ (fmt.f.vcodec = CODEC_NONE \/ fmt.f.acodec = CODEC_NONE)
    /\ fmt.format_id # None
\* download_backend.py:67-74
BackendProgressiveItem(fmt) ==
    Item(str(fmt.format_id), 0,
         <<vcodec_pref_rank(fmt.f.vcodec), acodec_pref_rank(fmt.f.acodec),
           fmt.f.height, fmt.f.fps, fmt.f.tbr>>)

\* What build_video_plan_like_main1 returns; kind "noplan" for None.
Plan(kind, format_spec, merge) ==
    [kind |-> kind, format_spec |-> format_spec, merge_output_format |-> merge]
NoPlan == Plan("noplan", << >>, None)
PlanNotCalled == Plan("not called", << >>, None)

\* download_backend.py:53-84
best_progressive_mp4(formats) ==
    LET seen == SelectSeq(formats, IsProgressive)
        best == keep_best([i \in 1..Len(seen) |-> BackendProgressiveItem(seen[i])], NoItem)
    IN  IF best = NoItem THEN NoPlan ELSE Plan("progressive", <<best.id>>, None)

\* download_backend.py:100-103 and 117-120
IsBackendVideo(fmt) ==
    /\ fmt.f.ext = "mp4" /\ fmt.f.vcodec # CODEC_NONE /\ fmt.f.acodec = CODEC_NONE
    /\ fmt.format_id # None
IsBackendAudio(fmt) ==
    /\ fmt.f.vcodec = CODEC_NONE /\ fmt.f.acodec # CODEC_NONE /\ fmt.f.ext \in {"m4a", "mp4"}
    /\ fmt.format_id # None
\* download_backend.py:105-110 and 122-124
BackendVideoItem(fmt) ==
    Item(str(fmt.format_id), 0,
         <<vcodec_pref_rank(fmt.f.vcodec), fmt.f.height, fmt.f.fps, fmt.f.tbr>>)
BackendAudioItem(fmt) ==
    Item(str(fmt.format_id), 0,
         <<acodec_pref_rank(fmt.f.acodec), IF fmt.f.abr # 0 THEN fmt.f.abr ELSE fmt.f.tbr>>)

\* download_backend.py:87-140
best_separate_mp4_m4a(formats) ==
    LET vs == SelectSeq(formats, IsBackendVideo)
        as == SelectSeq(formats, IsBackendAudio)
        best_v == keep_best([i \in 1..Len(vs) |-> BackendVideoItem(vs[i])], NoItem)
        best_a == keep_best([i \in 1..Len(as) |-> BackendAudioItem(as[i])], NoItem)
    IN  IF best_v = NoItem \/ best_a = NoItem THEN NoPlan
        ELSE Plan("separate", <<best_v.id, best_a.id>>, "mp4")

\* The separate pair is tried before the progressive format.
build_plan_separate_first(formats) ==
    IF best_separate_mp4_m4a(formats) # NoPlan THEN best_separate_mp4_m4a(formats)
    ELSE best_progressive_mp4(formats)

\* download_backend.py:143-150
build_video_plan_like_main1(formats) ==
    IF best_progressive_mp4(formats) # NoPlan THEN best_progressive_mp4(formats)
    ELSE IF best_separate_mp4_m4a(formats) # NoPlan THEN best_separate_mp4_m4a(formats)
    ELSE NoPlan

\* main.py:374-399 _choose_format_for_url: one metadata fetch; when it
\* raises (or yields no dict) the format expression is used.
ChooseFormatForUrl(ok) ==
    /\ pl_choice = NotCalled
    /\ pl_choice' = IF ok THEN choose_format(pl_formats) ELSE SelectorChoice
    /\ UNCHANGED <<pl_formats, pl_plan, pl_pair>>
    /\ UNCHANGED <<mainVars, deliveryVars, prefsVars, filesVars, welcomeVars>>

\* download_backend.py:281: the plan made of the fetched metadata
BuildVideoPlan ==
    /\ pl_plan = PlanNotCalled
    /\ pl_plan' = build_video_plan_like_main1(pl_formats)
    /\ UNCHANGED <<pl_formats, pl_choice, pl_pair>>
    /\ UNCHANGED <<mainVars, deliveryVars, prefsVars, filesVars, welcomeVars>>

\* main.py:388: the separate pick, reached when the progressive pick
\* found nothing
PickBestSeparate ==
    /\ pl_pair = <<"not called">>
    /\ pl_pair' = pick_best_separate_mp4_m4a(pl_formats)
    /\ UNCHANGED <<pl_formats, pl_choice, pl_plan>>
    /\ UNCHANGED <<mainVars, deliveryVars, prefsVars, filesVars, welcomeVars>>

\* The planners when no call of them is modelled.
PlannerIdle ==
    /\ pl_formats = << >>
    /\ pl_choice = NotCalled
    /\ pl_plan = PlanNotCalled
    /\ pl_pair = <<"not called">>

(***************************************************************************)
(* Group welcome: handle_new_chat_members (main.py:848-885), run by the    *)
(* handler threads of the bot for the service messages that report new     *)
(* members.  The cache entry welcomed_groups is read and written under     *)
(* _prefs_lock, one call at a time; the send happens between the two.      *)
(***************************************************************************)
\* Number of new_chat_members messages handled in one run of the model.
MaxEvents == 3
WelcomeChats == {"c1", "c2"}

\* What the welcome handler leaves alone in the preference store.
storeVars == <<welcomed_private, p_loaded, p_file, p_tmp, p_lock, p_pc, p_op, p_ret,
               p_calls, p_crashed, p_file0, p_rets>>

\* main.py:614-617
was_group_welcomed(chat_id) == DictGet(welcomed_groups, chat_id, FALSE)

\* main.py:850-877: the handler up to its test of the one-time flag.  It
\* returns at once for a message that does not add the bot itself and for
\* a group already welcomed.
HandleNewChatMembers(t, chat_id, is_me) ==
    /\ w_pc[t] = "idle"
    /\ w_events < MaxEvents
    /\ w_events' = w_events + 1
    /\ w_chat' = [w_chat EXCEPT ![t] = chat_id]
    /\ w_pc' = [w_pc EXCEPT ![t] =
                   IF is_me /\ ~ was_group_welcomed(chat_id) THEN "send" ELSE "idle"]
    /\ UNCHANGED <<w_msgs, welcomed_groups, storeVars>>
    /\ UNCHANGED <<mainVars, deliveryVars, filesVars, plannerVars>>

\* main.py:879-881: _try_send_message_html returns True when the message
\* was sent and False when the send raised
WelcomeSend(t, ok) ==
    /\ w_pc[t] = "send"
    /\ w_msgs' = [w_msgs EXCEPT ![w_chat[t]] = IF ok THEN @ + 1 ELSE @]
    /\ w_pc' = [w_pc EXCEPT ![t] = IF ok THEN "mark" ELSE "idle"]
    /\ UNCHANGED <<w_chat, w_events, welcomed_groups, storeVars>>
    /\ UNCHANGED <<mainVars, deliveryVars, filesVars, plannerVars>>

\* main.py:882 with 620-624: the flag is set in the cache; an error of the
\* save that follows is swallowed by the handler (main.py:884-885)
MarkGroupWelcomed(t) ==
    /\ w_pc[t] = "mark"
    /\ welcomed_groups' = DictPut(welcomed_groups, w_chat[t], TRUE)
    /\ w_pc' = [w_pc EXCEPT ![t] = "idle"]
    /\ UNCHANGED <<w_chat, w_msgs, w_events, storeVars>>
    /\ UNCHANGED <<mainVars, deliveryVars, filesVars, plannerVars>>

\* No new_chat_members message is being handled.
WelcomeIdle ==
    /\ w_pc = [t \in HandlerThreads |-> "idle"]
    /\ w_chat = [t \in HandlerThreads |-> "c1"]
    /\ w_msgs = [c \in WelcomeChats |-> 0]
    /\ w_events = 0

(***************************************************************************)
(* The bot after module load: empty queue, WORKERS threads started and     *)
(* blocked in jobs_q.get(), the opt-out map as prefs.json holds it.        *)
(***************************************************************************)
BackendIdle ==
    /\ b_cat = "generic"
    /\ b_cookie = FALSE
    /\ b_imp = FALSE
    /\ b_pc = "off"
    /\ b_calls = << >>
    /\ b_meta = "none"
    /\ b_err = 0

WorkersStarted ==
    /\ jobs_q = << >>
    /\ next_msg = 1
    /\ notify_on_fail = [j \in JobIds |-> FALSE]
    /\ delete_original_on_success = [j \in JobIds |-> FALSE]
    /\ trigger = [j \in JobIds |-> "none"]
    /\ status = [j \in JobIds |-> "none"]
    /\ outcome = [j \in JobIds |-> "none"]
    /\ pc = [w \in Workers |-> "idle"]
    /\ cur = [w \in Workers |-> 0]
    /\ err = [w \in Workers |-> "none"]
    /\ file = [w \in Workers |-> "none"]
    /\ meta_calls = [j \in JobIds |-> 0]
    /\ dl_calls = [j \in JobIds |-> 0]
    /\ sent = [j \in JobIds |-> FALSE]
    /\ deleted = [j \in JobIds |-> FALSE]
    /\ notices = [j \in JobIds |-> 0]
    /\ cleaned = [j \in JobIds |-> 0]

BotStarted == WorkersStarted /\ opt_out \in OptOutDocs

\* The scheduler at rest, with nobody opted out.
SchedulerIdle == WorkersStarted /\ opt_out = EmptyDict

\* The components modelled on their own are at rest.
ComponentsIdle == DeliveryIdle /\ PrefsIdle /\ FilesIdle /\ PlannerIdle /\ WelcomeIdle

Init == BotStarted /\ BackendIdle /\ ComponentsIdle

Next ==
    \/ \E m \in Messages : handle_group_messages(m)
    \/ \E w \in Workers : Get(w)
    \/ \E w \in Workers : ChooseFormat(w)
    \/ \E w \in Workers : Download(w)
    \/ \E w \in Workers : Resolve(w)
    \/ \E w \in Workers : Send(w)
    \/ \E w \in Workers : Delete(w)
    \/ \E w \in Workers : Except(w)
    \/ \E w \in Workers : Finally(w)
    \/ \E w \in Workers : TaskDone(w)

Spec == Init /\ [][Next]_vars

\* A call of download_with_ytdlp, for every site and configuration.
BackendCalled ==
    /\ b_cat \in Categories
    /\ b_cookie \in BOOLEAN
    /\ b_imp \in BOOLEAN
    /\ b_pc = "meta"
    /\ b_calls = << >>
    /\ b_meta = "none"
    /\ b_err = 0

InitBackend == BotStarted /\ BackendCalled /\ ComponentsIdle

NextBackend ==
    \/ BExtractMeta
    \/ BExtractMetaFallback
    \/ BDownload
    \/ BDownloadIgFallback
    \/ BDownloadYtFallback

SpecBackend == InitBackend /\ [][NextBackend]_vars

\* The threads of the bot making bot API calls, the scheduler at rest.
InitDelivery == SchedulerIdle /\ BackendIdle /\ ComponentsIdle

NextDelivery ==
    \/ \E t \in BotThreads : \E fn \in BotFunctions(t) : BotCall(t, fn)
    \/ \E t \in Workers : SendVideoTooLarge(t)
    \/ \E t \in BotThreads : BotLockAcquire(t)
    \/ \E t \in BotThreads : BotCallEnds(t)

SpecDelivery == InitDelivery /\ [][NextDelivery]_vars

\* Handler threads calling the preference store, the rest at rest.
InitPrefs ==
    /\ WorkersStarted /\ BackendIdle /\ DeliveryIdle /\ FilesIdle /\ PlannerIdle /\ WelcomeIdle
    /\ PrefsAtStart

NextPrefs ==
    \/ \E t \in HandlerThreads : \E op \in PrefOps : PrefCall(t, op)
    \/ \E t \in HandlerThreads : ensure_prefs_loaded(t)
    \/ \E t \in HandlerThreads : PrefBody(t)
    \/ \E t \in HandlerThreads : \E ok \in BOOLEAN : SaveOpen(t, ok)
    \/ \E t \in HandlerThreads : \E ok \in BOOLEAN : SaveWrite(t, ok)
    \/ \E t \in HandlerThreads : \E ok \in BOOLEAN : SaveReplace(t, ok)
    \/ Crash

SpecPrefs == InitPrefs /\ [][NextPrefs]_vars

\* Operations on the output folder, the rest at rest.
InitFiles == SchedulerIdle /\ BackendIdle /\ ComponentsIdle

NextFiles ==
    \/ \E prefix \in Prefixes : \E suffix \in Suffixes : \E size \in FileSizes :
          WriteFile(prefix, suffix, size)
    \/ \E prefix \in Prefixes : \E info \in Infos(prefix) : FindDownloadedFile(prefix, info)
    \/ \E prefix \in Prefixes : cleanup_files(prefix)

SpecFiles == InitFiles /\ [][NextFiles]_vars

\* The planners given one metadata snapshot, the rest at rest.
InitPlanner ==
    /\ SchedulerIdle /\ BackendIdle /\ DeliveryIdle /\ PrefsIdle /\ FilesIdle /\ WelcomeIdle
    /\ pl_formats \in Metas(FormatShapes, MaxFormats)
    /\ pl_choice = NotCalled
    /\ pl_plan = PlanNotCalled
    /\ pl_pair = <<"not called">>

NextPlanner ==
    \/ \E ok \in BOOLEAN : ChooseFormatForUrl(ok)
    \/ BuildVideoPlan

SpecPlanner == InitPlanner /\ [][NextPlanner]_vars

\* _pick_best_separate_mp4_m4a given the video-only and audio-only formats
\* of one snapshot.
InitSeparate ==
    /\ SchedulerIdle /\ BackendIdle /\ DeliveryIdle /\ PrefsIdle /\ FilesIdle /\ WelcomeIdle
    /\ pl_formats \in Metas(StreamShapes, MaxStreams)
    /\ pl_choice = NotCalled
    /\ pl_plan = PlanNotCalled
    /\ pl_pair = <<"not called">>

NextSeparate == PickBestSeparate

SpecSeparate == InitSeparate /\ [][NextSeparate]_vars

\* Handler threads handling new_chat_members messages, the rest at rest.
InitWelcome == SchedulerIdle /\ BackendIdle /\ ComponentsIdle

NextWelcome ==
    \/ \E t \in HandlerThreads : \E c \in WelcomeChats : \E is_me \in BOOLEAN :
          HandleNewChatMembers(t, c, is_me)
    \/ \E t \in HandlerThreads : \E ok \in BOOLEAN : WelcomeSend(t, ok)
    \/ \E t \in HandlerThreads : MarkGroupWelcomed(t)

SpecWelcome == InitWelcome /\ [][NextWelcome]_vars

\* Concurrent _toggle_opt_out calls of the handler threads on the pairs of
\* one chat, the store holding entries of other chats and welcomed flags.
\* The body of the call is taken in two steps, the read of the entry and
\* the store of its new value.
OtherChats == {"c2"}
StoredChats == PrefChats \cup OtherChats
StoredOptOut ==
    UNION {[C -> UNION {[U -> BOOLEAN] : U \in SUBSET PrefUsers}] : C \in SUBSET StoredChats}
\* What can lie at PREFS_PATH when the bot starts.
ToggleStartFiles ==
    {NoDoc("absent")}
    \cup {File("doc", o, EmptyDict, EmptyDict) : o \in StoredOptOut}
    \cup {File("doc", o, [c \in OtherChats |-> TRUE], [u \in PrefUsers |-> TRUE]) :
            o \in StoredOptOut}
ToggleOps == {op \in PrefOps : op.name = "toggle_opt_out"}

InitToggle ==
    /\ WorkersStarted /\ BackendIdle /\ DeliveryIdle /\ FilesIdle /\ PlannerIdle /\ WelcomeIdle
    /\ opt_out = EmptyDict
    /\ welcomed_groups = EmptyDict
    /\ welcomed_private = EmptyDict
    /\ p_loaded = FALSE
    /\ p_file \in ToggleStartFiles
    /\ p_tmp = NoDoc("absent")
    /\ p_lock = 0
    /\ p_pc = [t \in HandlerThreads |-> "idle"]
    /\ p_op = [t \in HandlerThreads |-> NoOp]
    /\ p_ret = [t \in HandlerThreads |-> "none"]
    /\ p_calls = 0
    /\ p_crashed = FALSE
    /\ p_file0 = p_file
    /\ p_rets = [pair \in PrefPairs |-> << >>]

NextToggle ==
    \/ \E t \in HandlerThreads : \E op \in ToggleOps : PrefCall(t, op)
    \/ \E t \in HandlerThreads : ensure_prefs_loaded(t)
    \/ \E t \in HandlerThreads : ToggleRead(t)
    \/ \E t \in HandlerThreads : ToggleStore(t)
    \/ \E t \in HandlerThreads : \E ok \in BOOLEAN : SaveOpen(t, ok)
    \/ \E t \in HandlerThreads : \E ok \in BOOLEAN : SaveWrite(t, ok)
    \/ \E t \in HandlerThreads : \E ok \in BOOLEAN : SaveReplace(t, ok)

SpecToggle == InitToggle /\ [][NextToggle]_vars

\* main.py:830-841: what one worker thread can do next
WorkerStep(w) ==
    \/ Get(w)
    \/ ChooseFormat(w)
    \/ Download(w)
    \/ Resolve(w)
    \/ Send(w)
    \/ Delete(w)
    \/ Except(w)
    \/ Finally(w)
    \/ TaskDone(w)

\* The running bot with each worker thread scheduled fairly: a worker that
\* can take a step (a job waits for its get(), or the external call it is
\* in returns or raises) eventually takes one.
SpecFair == Spec /\ \A w \in Workers : WF_vars(WorkerStep(w))

(***************************************************************************)
(* Properties of the scheduler (checked under Spec).                       *)
(***************************************************************************)
Running == {j \in JobIds : status[j] = "running"}
Queued == {jobs_q[i] : i \in 1..Len(jobs_q)}
Held == {cur[w] : w \in Workers} \ {0}
ExpectedNotices(flag) == IF flag THEN 1 ELSE 0
\* Everything the program has done for job j.
JobLog(j) == <<meta_calls[j], dl_calls[j], sent[j], deleted[j], notices[j],
               cleaned[j], outcome[j]>>
\* Where job j stands: its life cycle, its log and the worker on it.
JobState(j) == <<status[j], JobLog(j),
                 {<<w, pc[w], err[w], file[w]>> : w \in {v \in Workers : cur[v] = j}}>>

\* C1: at most WORKERS jobs are being processed at the same time and at
\* most MAX_QUEUE jobs wait in the queue, in every reachable state.
C1_BoundedConcurrency ==
    /\ Cardinality(Running) <= WORKERS
    /\ Cardinality(Held) <= WORKERS
    /\ Running = Held
    /\ Len(jobs_q) <= MAX_QUEUE

C1_Witness ==
    /\ Cardinality(Running) = WORKERS
    /\ \A w \in Workers : pc[w] = "download"

\* C2: a submission that finds the queue full returns "rejected" in the
\* same step (the handler does not wait), leaves the queue as it was, the
\* rejected job is never dequeued or processed, and a failure notice is
\* sent for it exactly when its notify_on_fail flag is set.
C2_RejectedState ==
    \A j \in JobIds : status[j] = "rejected" =>
        /\ j \notin Queued
        /\ j \notin Held
        /\ outcome[j] = "none"
        /\ meta_calls[j] = 0 /\ dl_calls[j] = 0 /\ cleaned[j] = 0
        /\ ~ sent[j] /\ ~ deleted[j]
        /\ notices[j] = ExpectedNotices(notify_on_fail[j])

C2_RejectStep ==
    \A j \in JobIds :
        /\ (status[j] = "none" /\ status'[j] # "none" /\ Len(jobs_q) >= MAX_QUEUE)
              => (status'[j] = "rejected" /\ jobs_q' = jobs_q)
        /\ (status[j] = "none" /\ status'[j] = "rejected") => Len(jobs_q) >= MAX_QUEUE
        /\ status[j] = "rejected" => JobState(j)' = JobState(j)

\* C2: both parts, the state of a rejected job and the rejecting step.
C2_Backpressure == [] C2_RejectedState /\ [][C2_RejectStep]_vars

C2_Witness ==
    \E j, k \in JobIds :
        /\ status[j] = "rejected" /\ notify_on_fail[j] /\ notices[j] = 1
        /\ status[k] = "done"

\* C3: for every job a worker dequeued, cleanup of its prefix runs exactly
\* once, whatever step failed or succeeded, and nothing else is done for
\* the job after it.
C3_CleanupCount ==
    \A j \in JobIds :
        /\ cleaned[j] <= 1
        /\ status[j] = "done" => cleaned[j] = 1
        /\ status[j] \in {"none", "queued", "rejected"} => cleaned[j] = 0

C3_CleanupLast ==
    \A j \in JobIds : cleaned[j] >= 1 => JobLog(j)' = JobLog(j)

\* C3: cleanup runs exactly once per dequeued job, as its last step.
C3_CleanupOnceAndLast == [] C3_CleanupCount /\ [][C3_CleanupLast]_vars

C3_Witness ==
    \E j, k \in JobIds :
        /\ status[j] = "done" /\ outcome[j] = "failed" /\ cleaned[j] = 1
        /\ status[k] = "done" /\ outcome[k] = "ok" /\ cleaned[k] = 1

\* C7: deletion of the originating message is requested only after the
\* job's video was delivered and only with the job's flag set; it is never
\* requested for a job that fails.
C7_DeleteOnlyAfterDelivery ==
    /\ \A j \in JobIds :
          /\ deleted[j] => (sent[j] /\ delete_original_on_success[j])
          /\ outcome[j] = "failed" => ~ deleted[j]
    /\ \A w \in Workers : err[w] # "none" => ~ deleted[cur[w]]

C7_Witness ==
    \E j, k \in JobIds :
        /\ deleted[j] /\ sent[j] /\ outcome[j] = "ok"
        /\ status[k] = "done" /\ outcome[k] = "failed" /\ ~ deleted[k]

\* C8: a failed job has exactly one failure notice when its notify_on_fail
\* flag is set and none otherwise, whatever the kind of error; a job that
\* succeeds has none.
C8_NoticeIffFlag ==
    /\ \A j \in JobIds :
          /\ notices[j] <= 1
          /\ outcome[j] = "ok" => notices[j] = 0
          /\ outcome[j] = "failed" => notices[j] = ExpectedNotices(notify_on_fail[j])
          /\ (status[j] = "running" /\ outcome[j] = "none") => notices[j] = 0
          /\ status[j] = "done" => outcome[j] \in {"ok", "failed"}
    /\ \A w \in Workers : \A e \in ErrorKinds :
          (err[w] = e /\ pc[w] \in {"finally", "task_done"}) =>
              /\ outcome[cur[w]] = "failed"
              /\ notices[cur[w]] = ExpectedNotices(notify_on_fail[cur[w]])

C8_Witness ==
    \E v, w \in Workers :
        /\ pc[v] = "finally" /\ err[v] = "DeliveryError"
        /\ notify_on_fail[cur[v]] /\ notices[cur[v]] = 1
        /\ pc[w] = "finally" /\ err[w] = "OutputNotFound"
        /\ ~ notify_on_fail[cur[w]] /\ notices[cur[w]] = 0

\* C9 as stated: notify_on_fail is set for every job whose message
\* mentions the bot and for no other job, so every explicitly requested
\* job that fails gets one failure message.
C9_NotifyIffMentioned ==
    \A j \in JobIds : trigger[j] # "none" =>
        /\ notify_on_fail[j] <=> trigger[j] \in {"mention", "mention_opted_out"}
        /\ outcome[j] = "failed" =>
              notices[j] = ExpectedNotices(trigger[j] \in {"mention", "mention_opted_out"})

\* C9 as amended: notify_on_fail is set exactly for the jobs whose message
\* mentions the bot while the sender is opted out in that chat; such a job
\* that fails gets one failure message, every other job fails silently.
C9_NotifyIffMentionedAndOptedOut ==
    \A j \in JobIds : trigger[j] # "none" =>
        /\ notify_on_fail[j] <=> trigger[j] = "mention_opted_out"
        /\ outcome[j] = "failed" =>
              notices[j] = ExpectedNotices(trigger[j] = "mention_opted_out")
        /\ status[j] = "rejected" =>
              notices[j] = ExpectedNotices(trigger[j] = "mention_opted_out")

C9_Witness ==
    \E j, k \in JobIds :
        /\ trigger[j] = "mention" /\ outcome[j] = "failed" /\ notices[j] = 0
        /\ trigger[k] = "mention_opted_out" /\ outcome[k] = "failed" /\ notices[k] = 1

\* C10: every worker is alive in every reachable state; a worker that has
\* finished a job, failed or not, is back at dequeueing; and a step of one
\* job leaves the queue order and every other job as they were.
C10_AllAlive ==
    \A w \in Workers :
        /\ pc[w] \notin {"dead", "finally_raise", "task_done_raise"}
        /\ pc[w] = "idle" <=> cur[w] = 0

C10_Isolation ==
    /\ \A w \in Workers :
          (pc[w] = "task_done" /\ pc'[w] # pc[w]) => (pc'[w] = "idle" /\ cur'[w] = 0)
    /\ \A j \in JobIds :
          (status[j] = "running" /\ JobState(j)' # JobState(j)) =>
              /\ jobs_q' = jobs_q
              /\ \A k \in JobIds \ {j} : JobState(k)' = JobState(k)

\* C10: workers never die, go back to dequeueing, and jobs do not interfere.
C10_FailureIsNeverFatal == [] C10_AllAlive /\ [][C10_Isolation]_vars

C10_Witness ==
    \E j, k \in JobIds : \E w \in Workers :
        /\ status[j] = "done" /\ outcome[j] = "failed"
        /\ cur[w] = k /\ j < k /\ pc[w] = "send"
        /\ \A v \in Workers \ {w} : pc[v] = "idle"

\* Workers that hold job j, and the places job j takes in the queue.
HoldersOf(j) == {w \in Workers : cur[w] = j}
PlacesOf(j) == {i \in 1..Len(jobs_q) : jobs_q[i] = j}

\* C11 (state part): an accepted job is in exactly one place: once in the
\* queue, or with exactly one worker, or finished with a terminal outcome.
C11_OnePlace ==
    \A j \in JobIds :
        /\ Cardinality(PlacesOf(j)) + Cardinality(HoldersOf(j)) <= 1
        /\ status[j] = "queued" <=> Cardinality(PlacesOf(j)) = 1
        /\ status[j] = "running" <=> Cardinality(HoldersOf(j)) = 1
        /\ status[j] = "done" => outcome[j] \in {"ok", "failed"}
        /\ status[j] \in {"none", "queued", "rejected"} => outcome[j] = "none"

\* C11 (step part): a job is dequeued once and ends once: it goes from the
\* queue to one worker and from that worker to done, it never comes back,
\* and its terminal outcome is set once and kept.
C11_OneWay ==
    \A j \in JobIds :
        /\ status[j] = "queued" => status'[j] \in {"queued", "running"}
        /\ status[j] = "running" =>
              /\ status'[j] \in {"running", "done"}
              /\ status'[j] = "running" => HoldersOf(j)' = HoldersOf(j)
        /\ status[j] = "done" => status'[j] = "done"
        /\ outcome[j] # "none" => outcome'[j] = outcome[j]

\* C11 (progress part): every job accepted into the queue is finished.
C11_Finished == \A j \in JobIds : (status[j] = "queued") ~> (status[j] = "done")

\* C11: under fair scheduling of the workers, with every external call
\* returning, every job accepted into the queue is dequeued by exactly one
\* worker and reaches a terminal outcome (ok or failed) exactly once; no job
\* is processed twice or lost.
C11_ExactlyOnce == [] C11_OnePlace /\ [][C11_OneWay]_vars /\ C11_Finished

C11_Witness ==
    /\ \A j \in JobIds : status[j] = "done"
    /\ {outcome[j] : j \in JobIds} = {"ok", "failed"}
    /\ \A w \in Workers : pc[w] = "idle"

(***************************************************************************)
(* Properties of download_with_ytdlp (checked under SpecBackend).          *)
(***************************************************************************)
BEnded == b_pc \in {"returned", "raised"}
CallIds == 1..Len(b_calls)
DownloadIds == {i \in CallIds : b_calls[i].kind = "download"}
OverlaysTried == {b_calls[i].overlay : i \in CallIds}
AllCallsFailed == \A i \in CallIds : ~ b_calls[i].ok
\* Section 4.2 of the specification: one overlay for a generic site, two
\* for YouTube and for Instagram.
PolicyAttempts(cat) == IF cat = "generic" THEN 1 ELSE 2

\* C4: with a Media Service that fails on every call, the call for a job
\* of each site ends as failed, once, after exactly the attempts of the
\* site's policy (generic 1, YouTube 2, Instagram 2).
C4_FallbackExhaustion ==
    (BEnded /\ AllCallsFailed) =>
        /\ b_pc = "raised"
        /\ b_err \in CallIds
        /\ Cardinality(OverlaysTried) = PolicyAttempts(b_cat)

\* C5: for a YouTube or Instagram job a failed metadata fetch or download
\* under the first overlay is followed by a retry under the next one, and
\* the error that leaves the function is the one of the final overlay.
C5_OnlyFinalOverlayErrorEscapes ==
    b_cat \in {"youtube", "instagram"} =>
        /\ \A i \in CallIds :
              (~ b_calls[i].ok /\ b_calls[i].overlay = "primary") =>
                  (b_pc # "raised" \/ i < Len(b_calls))
        /\ b_pc = "raised" => b_calls[b_err].overlay = "fallback"

\* C6: no Media Service call follows a successful download, and when the
\* downloads under every overlay of the site have failed, the error that
\* leaves the function is the error of the last attempt made.
C6_StopsAtFirstSuccess ==
    /\ \A i \in DownloadIds :
          b_calls[i].ok => (i = Len(b_calls) /\ b_pc = "returned")
    /\ b_pc = "returned" =>
          /\ b_err = 0
          /\ b_calls # << >>
          /\ b_calls[Len(b_calls)].kind = "download"
          /\ b_calls[Len(b_calls)].ok
    /\ b_pc = "raised" =>
          /\ b_err = Len(b_calls)
          /\ b_err \in CallIds
          /\ ~ b_calls[b_err].ok
    /\ (b_pc = "raised" /\ DownloadIds # {}) =>
          Cardinality(DownloadIds) = PolicyAttempts(b_cat)

C6_Witness ==
    /\ b_pc = "raised"
    /\ b_cat = "youtube"
    /\ Cardinality(DownloadIds) = 2
    /\ b_err = Len(b_calls)

(***************************************************************************)
(* Properties of message delivery (checked under SpecDelivery).            *)
(***************************************************************************)
\* C12: a worker never blocks on another worker: while one worker is inside
\* a message-delivery call, another worker that has reached its own
\* message-delivery call can enter it.
C12_NeverBlockedByAnotherWorker ==
    \A v, w \in Workers :
        (v # w /\ d_pc[v] = "call" /\ d_pc[w] = "wait") => ENABLED BotLockAcquire(w)

(***************************************************************************)
(* Properties of the preference store (checked under SpecPrefs).           *)
(***************************************************************************)
\* Whether the pair was opted out in the file the process started with.
InitiallyOptedOut(c, u) ==
    /\ p_file0.kind = "doc"
    /\ DictGet(DictGet(p_file0.opt_out, c, EmptyDict), u, FALSE)
\* Whether document f holds a record for the pair, whatever its value.
HasRecord(f, c, u) ==
    /\ f.kind = "doc"
    /\ c \in DOMAIN f.opt_out
    /\ u \in DOMAIN f.opt_out[c]
InSave == {"body_open", "body_write", "body_replace"}
\* The threads that have toggled the pair and not yet returned or raised.
TogglingNow(c, u) ==
    {t \in HandlerThreads :
        /\ p_op[t] = [name |-> "toggle_opt_out", chat |-> c, user |-> u]
        /\ p_pc[t] \in InSave}
\* The number of _toggle_opt_out calls that have toggled the pair.
Toggles(c, u) == Len(p_rets[<<c, u>>]) + Cardinality(TogglingNow(c, u))
Odd(n) == n % 2 = 1

Sparse(o) ==
    \A c \in DOMAIN o :
        /\ DOMAIN o[c] # {}
        /\ \A u \in DOMAIN o[c] : o[c][u] = TRUE

\* C14 as stated: after any sequence of preference-store operations,
\* loading any well-formed document included, the opt_out map of the cache
\* holds no false entry and no chat with an empty user map.
C14_AlwaysSparse == Sparse(opt_out)

\* C14: when the document the process started with holds no false entry
\* and no empty user map (or there was no readable document), then after
\* any sequence of loads, toggles and welcome marks neither the opt_out map
\* of the cache nor the one of the persisted document holds a false entry
\* or a chat with an empty user map.
C14_SparseWhenStartedSparse ==
    Sparse(p_file0.opt_out) => (Sparse(opt_out) /\ Sparse(p_file.opt_out))

C14_Witness ==
    /\ p_file0.kind = "doc"
    /\ Sparse(p_file0.opt_out)
    /\ p_file0.opt_out # EmptyDict
    /\ p_loaded
    /\ opt_out = EmptyDict
    /\ p_file = CacheDoc
    /\ p_lock = 0

\* C15 (state part): prefs.json is never a file written in part: it is the
\* file the process started with or a document written to its end.
C15_NeverPartial ==
    /\ p_file.kind # "partial"
    /\ p_file = p_file0 \/ p_file.kind = "doc"

\* C15 (step part): prefs.json changes only by taking, in one step, the
\* whole document of the cache that the temporary file holds.
C15_CommitInFull == p_file' # p_file => (p_file' = CacheDoc /\ p_tmp = CacheDoc)

\* C15: wherever in a save the process dies or the save raises (before,
\* during or after the write of the temporary file, before the rename),
\* prefs.json holds the last committed document or the new one in full.
C15_CrashSafeSave == [] C15_NeverPartial /\ [][C15_CommitInFull]_vars

C15_Witness ==
    /\ p_crashed
    /\ \E t \in HandlerThreads : p_pc[t] = "body_replace"
    /\ p_tmp = CacheDoc
    /\ p_file.kind = "doc"
    /\ p_file # CacheDoc

\* C16: whenever the preference lock is free, the loaded cache equals the
\* document in prefs.json, also in executions where writing the file
\* raises: no change a call made to the cache shows before it is persisted.
C16_CacheIsFileWhenLockFree ==
    (p_lock = 0 /\ p_loaded /\ p_file.kind = "doc") => p_file = CacheDoc

(***************************************************************************)
(* Properties of the output folder (checked under SpecFiles).              *)
(***************************************************************************)
\* The result reports no usable file path: requested_downloads is missing,
\* empty, or none of its entries is a finished file.
NoUsablePath(info) ==
    /\ info.kind \in {"missing", "list"}
    /\ \A i \in 1..Len(info.reqs) : ~ is_good_downloaded_file(info.reqs[i])
\* The finished, non-intermediate files named with the prefix.
FinishedFiles(prefix) ==
    {fn \in FileNames : startswith(fn, prefix) /\ is_good_downloaded_file(fn)}

\* C17: when the result reports no usable file path but the folder holds a
\* finished non-intermediate file named with the job's prefix,
\* _find_downloaded_file returns such a file instead of NONE.
C17_FallsThroughToFolder ==
    (/\ f_op.name = "find"
     /\ NoUsablePath(f_op.info)
     /\ FinishedFiles(f_op.prefix) # {})
        => f_found \in FinishedFiles(f_op.prefix)

\* C18: cleanup for one prefix never deletes a file that was written for a
\* different prefix, also when the one is a proper string prefix of the
\* other.
C18_CleanupKeepsOtherPrefixes ==
    f_op.name = "cleanup" =>
        \A f \in f_op.before : f.owner # f_op.prefix => f \in folder

(***************************************************************************)
(* Properties of the format planners (checked under SpecPlanner).          *)
(***************************************************************************)
Places == 1..Len(pl_formats)
\* The ids the formats of the snapshot carry.
FormatIds == {pl_formats[i].format_id : i \in Places} \ {None}
PlaceOf(id) == CHOOSE i \in Places : pl_formats[i].format_id = id
\* The size a format declares, exact or else approximate; 0 for none.
DeclaredSize(i) ==
    IF pl_formats[i].f.filesize > 0 THEN pl_formats[i].f.filesize
    ELSE pl_formats[i].f.filesize_approx
HasVideo(i) == pl_formats[i].f.vcodec # CODEC_NONE
HasAudio(i) == pl_formats[i].f.acodec # CODEC_NONE
HasId(i) == pl_formats[i].format_id # None
\* A progressive candidate every planner accepts, and a separate pair.
ValidProgressive(i) ==
    /\ pl_formats[i].f.ext = "mp4" /\ HasVideo(i) /\ HasAudio(i) /\ HasId(i)
    /\ DeclaredSize(i) \in 1..MAX_SEND_BYTES
ValidPair(v, a) ==
    /\ pl_formats[v].f.ext = "mp4" /\ HasVideo(v) /\ ~ HasAudio(v) /\ HasId(v)
    /\ pl_formats[a].f.ext = "m4a" /\ ~ HasVideo(a) /\ HasAudio(a) /\ HasId(a)
    /\ DeclaredSize(v) > 0 /\ DeclaredSize(a) > 0
    /\ DeclaredSize(v) + DeclaredSize(a) <= MAX_SEND_BYTES
\* _choose_format_for_url returned format ids, build_video_plan_like_main1
\* returned.
ChoseIds == pl_choice # NotCalled /\ ~ pl_choice.selector
Planned == pl_plan # PlanNotCalled

\* C21: for metadata that holds a valid progressive candidate and a valid
\* separate pair, each planner returns a progressive plan: one format id
\* and no merge, the id of no video-only or audio-only format.
C21_ProgressiveOverSeparate ==
    ((\E i \in Places : ValidProgressive(i)) /\ (\E v, a \in Places : ValidPair(v, a))) =>
        /\ ChoseIds =>
              /\ Len(pl_choice.format_spec) = 1
              /\ pl_choice.merge_output_format = None
              /\ \A i \in Places : pl_formats[i].format_id = pl_choice.format_spec[1] =>
                                       (HasVideo(i) /\ HasAudio(i))
        /\ Planned =>
              /\ pl_plan.kind = "progressive"
              /\ Len(pl_plan.format_spec) = 1
              /\ pl_plan.merge_output_format = None
              /\ \A i \in Places : pl_formats[i].format_id = pl_plan.format_spec[1] =>
                                       (HasVideo(i) /\ HasAudio(i))

C21_Witness ==
    /\ \E i \in Places : ValidProgressive(i)
    /\ \E v, a \in Places : ValidPair(v, a)
    /\ ChoseIds /\ Len(pl_choice.format_spec) = 1
    /\ Planned /\ pl_plan.kind = "progressive"

\* C22: no planner returns a progressive format whose declared size, exact
\* or approximate, is over MAX_SEND_BYTES.
C22_NeverOverBudget ==
    /\ (ChoseIds /\ Len(pl_choice.format_spec) = 1 /\ pl_choice.format_spec[1] \in FormatIds) =>
          DeclaredSize(PlaceOf(pl_choice.format_spec[1])) <= MAX_SEND_BYTES
    /\ (Planned /\ pl_plan.kind = "progressive") =>
          DeclaredSize(PlaceOf(pl_plan.format_spec[1])) <= MAX_SEND_BYTES

\* Two formats that differ in their video codec (and their id) only.
SameExceptVcodec(i, j) ==
    /\ pl_formats[i].f.vcodec # pl_formats[j].f.vcodec
    /\ [pl_formats[i].f EXCEPT !.vcodec = pl_formats[j].f.vcodec] = pl_formats[j].f
\* The preferred codec family, H.264
IsH264(i) == pl_formats[i].f.vcodec[1] = "avc1"

\* C23: of two progressive candidates that differ in the video codec only,
\* one H.264 and the other not, no planner returns the other one, whatever
\* their places in the list.
C23_CodecPreference ==
    \A i, j \in Places :
        (/\ ValidProgressive(i) /\ ValidProgressive(j)
         /\ SameExceptVcodec(i, j)
         /\ IsH264(i) /\ ~ IsH264(j)) =>
            /\ ChoseIds => pl_choice.format_spec # <<pl_formats[j].format_id>>
            /\ Planned => pl_plan.format_spec # <<pl_formats[j].format_id>>

C23_Witness ==
    \E i, j \in Places :
        /\ j < i
        /\ ValidProgressive(i) /\ ValidProgressive(j)
        /\ SameExceptVcodec(i, j)
        /\ IsH264(i) /\ ~ IsH264(j)
        /\ ChoseIds /\ pl_choice.format_spec = <<pl_formats[i].format_id>>
        /\ Planned /\ pl_plan.format_spec = <<pl_formats[i].format_id>>

\* C24: every format id of a returned plan is the id of a format of the
\* metadata the plan was made of.
C24_IdsOfTheMetadata ==
    /\ ChoseIds => \A k \in 1..Len(pl_choice.format_spec) :
                      pl_choice.format_spec[k] \in FormatIds
    /\ Planned => \A k \in 1..Len(pl_plan.format_spec) :
                      pl_plan.format_spec[k] \in FormatIds

(***************************************************************************)
(* Metadata fetches and download attempts of download_with_ytdlp (checked  *)
(* under SpecBackend).                                                     *)
(***************************************************************************)
MetaIds == {i \in CallIds : b_calls[i].kind = "meta"}
LastOf(S) == CHOOSE i \in S : \A j \in S : j <= i

\* C25 as stated: a call of download_with_ytdlp that has ended has made
\* exactly one metadata fetch, for every site and whether or not the fetch
\* failed.
C25_ExactlyOneFetch == BEnded => Cardinality(MetaIds) = 1

\* C25, amended: the metadata fetches come before every download; there is
\* one of them, or two for an Instagram url whose first fetch failed, the
\* second one with the base options; no fetch follows a successful one, and
\* a download is made only after a successful fetch, whose snapshot gives
\* the plan.
C25_OneFetchOrInstagramRetry ==
    /\ BEnded => Cardinality(MetaIds) =
                    IF b_cat = "instagram" /\ ~ b_calls[1].ok THEN 2 ELSE 1
    /\ \A i \in MetaIds : \A j \in DownloadIds : i < j
    /\ \A i \in MetaIds : b_calls[i].ok => i = LastOf(MetaIds)
    /\ \A i \in MetaIds :
          b_calls[i].overlay = (IF i = 1 THEN "primary" ELSE "fallback")
    /\ \A i \in MetaIds : b_calls[i].overlay = "fallback" =>
          /\ "impersonate" \notin DOMAIN b_calls[i].opts
          /\ b_calls[i].opts.retries = 5
          /\ b_calls[i].opts.socket_timeout = 20
    /\ DownloadIds # {} => (b_calls[LastOf(MetaIds)].ok /\ b_meta \in PlanKinds)

C25_Witness ==
    /\ BEnded
    /\ b_cat = "instagram"
    /\ Cardinality(MetaIds) = 2
    /\ DownloadIds # {}

\* C26: the downloads of a call follow the list of the site: the first is
\* made with the primary options; a second one is made only for YouTube and
\* Instagram and only after the first failed; for YouTube it has one
\* concurrent fragment and the format "18/best[ext=mp4]/best" whatever the
\* plan; for Instagram it has the format of the first, no impersonation and
\* the default retries and timeout.  A generic url gets one download, with
\* the base options.
C26_OverlaysInOrder ==
    /\ Cardinality(DownloadIds) <= PolicyAttempts(b_cat)
    /\ \A i \in DownloadIds :
          /\ b_calls[i].overlay = (IF i - 1 \in DownloadIds THEN "fallback" ELSE "primary")
          /\ i - 1 \in DownloadIds => ~ b_calls[i - 1].ok
    /\ \A i \in DownloadIds : b_calls[i].overlay = "primary" =>
          /\ b_calls[i].opts.format = format_value(b_meta)
          /\ b_calls[i].opts.concurrent_fragment_downloads = YTDLP_CONCURRENT_FRAGMENTS
          /\ b_cat = "generic" =>
                /\ b_calls[i].opts.retries = 5
                /\ b_calls[i].opts.fragment_retries = 5
                /\ b_calls[i].opts.socket_timeout = 20
                /\ "impersonate" \notin DOMAIN b_calls[i].opts
    /\ \A i \in DownloadIds : (b_calls[i].overlay = "fallback" /\ b_cat = "youtube") =>
          /\ b_calls[i].opts.concurrent_fragment_downloads = 1
          /\ b_calls[i].opts.format = "18/best[ext=mp4]/best"
    /\ \A i \in DownloadIds : (b_calls[i].overlay = "fallback" /\ b_cat = "instagram") =>
          /\ b_calls[i].opts.format = b_calls[i - 1].opts.format
          /\ "impersonate" \notin DOMAIN b_calls[i].opts
          /\ b_calls[i].opts.retries = 5
          /\ b_calls[i].opts.fragment_retries = 5
          /\ b_calls[i].opts.socket_timeout = 20

C26_Witness ==
    /\ b_cat = "instagram"
    /\ Cardinality(DownloadIds) = 2
    /\ \E i \in DownloadIds : "impersonate" \in DOMAIN b_calls[i].opts
    /\ b_meta = "progressive"

(***************************************************************************)
(* Properties of _pick_best_separate_mp4_m4a (checked under SpecSeparate). *)
(***************************************************************************)
\* The video-only and audio-only formats of known size.
Vid == {i \in Places : /\ pl_formats[i].f.ext = "mp4" /\ HasVideo(i) /\ ~ HasAudio(i)
                       /\ DeclaredSize(i) > 0}
Aud == {i \in Places : /\ pl_formats[i].f.ext \in {"m4a", "mp4"} /\ ~ HasVideo(i) /\ HasAudio(i)
                       /\ DeclaredSize(i) > 0}
Bitrate(i) == IF pl_formats[i].f.abr # 0 THEN pl_formats[i].f.abr ELSE pl_formats[i].f.tbr
VideoAhead(u, v) == KeyGreater(quality_key(pl_formats[u]), quality_key(pl_formats[v]))
AudioAhead(b, a) == Bitrate(b) > Bitrate(a)
\* Among the first TOP_VIDEOS / TOP_AUDIOS of the descending order, however
\* equal keys are ordered (Surely), or for some order of them (Maybe).
SurelyTopVideo(u) == Cardinality({x \in Vid \ {u} : ~ VideoAhead(u, x)}) < TOP_VIDEOS
MaybeTopVideo(v) == Cardinality({x \in Vid : VideoAhead(x, v)}) < TOP_VIDEOS
SurelyTopAudio(b) == Cardinality({x \in Aud \ {b} : ~ AudioAhead(b, x)}) < TOP_AUDIOS
MaybeTopAudio(a) == Cardinality({x \in Aud : AudioAhead(x, a)}) < TOP_AUDIOS
Fits(v, a) == DeclaredSize(v) + DeclaredSize(a) <= MAX_SEND_BYTES
PickReturned == pl_pair # <<"not called">>
PairReturned == PickReturned /\ Len(pl_pair) = 2
\* Both ids of the pair name formats of known size that fit together, the
\* video among the top videos, and no audio of higher bitrate fits with it.
PairFits ==
    PairReturned =>
        /\ pl_pair[1] \in FormatIds /\ pl_pair[2] \in FormatIds
        /\ PlaceOf(pl_pair[1]) \in Vid /\ PlaceOf(pl_pair[2]) \in Aud
        /\ Fits(PlaceOf(pl_pair[1]), PlaceOf(pl_pair[2]))
        /\ MaybeTopVideo(PlaceOf(pl_pair[1]))
        /\ \A b \in Aud : AudioAhead(b, PlaceOf(pl_pair[2])) => ~ Fits(PlaceOf(pl_pair[1]), b)

C28_OversizedNotSent ==
    \A w \in Workers : file[w] = "video_big" =>
        /\ ~ sent[cur[w]]
        /\ ~ deleted[cur[w]]
        /\ pc[w] \in {"send", "except", "finally"}
        /\ pc[w] # "send" => err[w] = "Oversized"

\* The step that lets go of the oversized file is the cleanup of a failed
\* job, with one notice if notify_on_fail and none otherwise.
C28_OversizedEndsAsFailure ==
    \A w \in Workers : (file[w] = "video_big" /\ file'[w] # "video_big") =>
        /\ cleaned'[cur[w]] = cleaned[cur[w]] + 1
        /\ outcome'[cur[w]] = "failed"
        /\ notices'[cur[w]] = (IF notify_on_fail[cur[w]] THEN 1 ELSE 0)
        /\ ~ sent'[cur[w]]
        /\ ~ deleted'[cur[w]]

\* C28: no file over MAX_SEND_BYTES is passed to the send-video call; a job
\* whose resolved output is over the ceiling ends as a failure: notice only
\* if notify_on_fail, original message kept, cleanup run.
C28_NoOversizedSend == [] C28_OversizedNotSent /\ [][C28_OversizedEndsAsFailure]_vars

C28_Witness ==
    \E w \in Workers :
        /\ file[w] = "video_big"
        /\ pc[w] = "finally"
        /\ notify_on_fail[cur[w]]
        /\ delete_original_on_success[cur[w]]
        /\ notices[cur[w]] = 1

(***************************************************************************)
(* Properties of the output resolver (checked under SpecFiles), continued. *)
(***************************************************************************)
\* The file of the folder with this name, and the last part of a name.
Finished(fp) ==
    \E f \in folder : /\ f.name = fp /\ f.size > 0
                      /\ fp[Len(fp)] \notin {"part", "ytdl"}
AudioName(fp) == fp[Len(fp)] \in {"m4a", "M4A"}

\* C29: _find_downloaded_file returns nothing or a file of the folder that
\* is neither empty nor intermediate (.part, .ytdl), and _process_job goes
\* on to the send only with a file that was returned and has no audio-only
\* extension: for an audio-only file it raises before the send.
C29_OnlyFinishedVideoIsSent ==
    f_op.name = "find" =>
        /\ f_found # NONE => Finished(f_found)
        /\ f_step = "send" => (f_found # NONE /\ ~ AudioName(f_found))
        /\ (f_found # NONE /\ AudioName(f_found)) => f_step = "AudioOnly"
        /\ f_found = NONE => f_step = "OutputNotFound"

\* An audio-only file is resolved while an intermediate file of the same
\* prefix lies in the folder.
C29_Witness ==
    /\ f_op.name = "find"
    /\ f_found # NONE
    /\ AudioName(f_found)
    /\ f_step = "AudioOnly"
    /\ \E f \in folder : f.owner = f_op.prefix /\ f.name[Len(f.name)] = "part"

(***************************************************************************)
(* Concurrent toggles of one pair (checked under SpecToggle).              *)
(***************************************************************************)
\* The user map of a chat in an opt_out map.
ChatMap(o, c) == IF c \in DOMAIN o THEN o[c] ELSE "absent"
\* The entry of a pair in an opt_out map.
Entry(o, c, u) ==
    IF c \in DOMAIN o /\ u \in DOMAIN o[c] THEN BoolStr(o[c][u]) ELSE "absent"
\* Thread t stores the new value of its toggle in this step.
TogglesInStep(t) ==
    /\ p_op[t].name = "toggle_opt_out"
    /\ p_pc[t] = "toggle_store"
    /\ p_pc'[t] = "body_open"

\* C31 (state part): whatever the interleaving of the _toggle_opt_out calls
\* on a pair, the opt-out state of the pair is its initial state flipped
\* once per call that has toggled, and the k-th call in the order of the
\* lock, when it returns, returns the initial state flipped k times.
C31_NoLostToggle ==
    \A c \in PrefChats : \A u \in PrefUsers :
        LET r == p_rets[<<c, u>>] IN
        /\ p_loaded => (is_opted_out(c, u) <=> (InitiallyOptedOut(c, u) # Odd(Toggles(c, u))))
        /\ \A k \in 1..Len(r) :
              r[k] # "raised" => r[k] = BoolStr(InitiallyOptedOut(c, u) # Odd(k))

\* C31 (step part): the toggle of a pair leaves the user map of every other
\* chat, the entry of every other user of the chat and the welcomed flags
\* as they were.
C31_OthersUntouched ==
    \A t \in HandlerThreads :
        TogglesInStep(t) =>
            /\ welcomed_groups' = welcomed_groups
            /\ welcomed_private' = welcomed_private
            /\ \A c \in StoredChats \ {p_op[t].chat} :
                  ChatMap(opt_out', c) = ChatMap(opt_out, c)
            /\ \A u \in PrefUsers \ {p_op[t].user} :
                  Entry(opt_out', p_op[t].chat, u) = Entry(opt_out, p_op[t].chat, u)

\* C31: for every interleaving of concurrent _toggle_opt_out calls on the
\* same (chat, user) no update is lost: the opt-out state is the initial
\* state flipped once per call, the values returned alternate in the order
\* the calls took the lock, and a toggle leaves every other (chat, user)
\* entry and all welcomed flags unchanged.
C31_ConcurrentToggles == [] C31_NoLostToggle /\ [][C31_OthersUntouched]_vars

C31_Witness ==
    \E t1 \in HandlerThreads : \E t2 \in HandlerThreads \ {t1} :
        /\ p_op[t1] = [name |-> "toggle_opt_out", chat |-> "c1", user |-> "u1"]
        /\ p_op[t2] = p_op[t1]
        /\ p_pc[t1] = "body_replace" /\ p_lock = t1 /\ p_ret[t1] = "FALSE"
        /\ p_pc[t2] = "body"
        /\ Entry(opt_out, "c1", "u2") = "TRUE"
        /\ Entry(opt_out, "c2", "u1") = "TRUE"
        /\ "c1" \notin DOMAIN opt_out \/ "u1" \notin DOMAIN opt_out["c1"]
        /\ welcomed_groups # EmptyDict

(***************************************************************************)
(* Opted-out senders at the intake (checked under Spec).                   *)
(***************************************************************************)
\* The cache holds the sender of m as opted out in the chat of m.
SenderOptedOut(m) == Entry(opt_out, m.chat, m.user) = "TRUE"
\* The handler puts a job on the queue in this step.
Enqueues == Len(jobs_q') = Len(jobs_q) + 1 /\ next_msg' = next_msg + 1

\* C32 (state part): the handler does nothing with a message that carries a
\* URL, does not mention the bot and comes from a sender who is opted out
\* in the chat when the message is handled.
C32_UnmentionedIsDropped ==
    \A m \in Messages :
        (m.has_url /\ SenderOptedOut(m) /\ ~ m.bot_mentioned)
            => ~ ENABLED handle_group_messages(m)

\* C32 (step part): when the handling of a message of an opted-out sender
\* puts a job on the queue, the message mentions the bot, and the job is
\* recorded as asked for by mention.
C32_EnqueuedByMention ==
    \A m \in Messages :
        (handle_group_messages(m) /\ Enqueues /\ SenderOptedOut(m))
            => (m.bot_mentioned /\ trigger'[next_msg] = "mention_opted_out")

\* C32: a message with a URL from a sender who is opted out in that chat
\* when the message is handled, and that does not mention the bot, never
\* results in a job being enqueued; a job is enqueued for an opted-out
\* sender only when the message mentions the bot.
C32_OptedOutNeedsMention ==
    [] C32_UnmentionedIsDropped /\ [][C32_EnqueuedByMention]_vars

C32_Witness ==
    \E m \in Messages : \E j \in JobIds :
        /\ m.has_url /\ SenderOptedOut(m) /\ ~ m.bot_mentioned
        /\ ~ ENABLED handle_group_messages(m)
        /\ ENABLED handle_group_messages([m EXCEPT !.bot_mentioned = TRUE])
        /\ trigger[j] = "mention_opted_out"
        /\ status[j] = "queued"

(***************************************************************************)
(* Properties of _cleanup_files (checked under SpecFiles).                 *)
(***************************************************************************)
\* The files whose name starts with the prefix.
Named(files, prefix) == {f \in files : startswith(f.name, prefix)}

\* C33: _cleanup_files(prefix, folder) never raises, whether the folder is
\* missing, a file has vanished or a removal is refused; it leaves every
\* file whose name does not start with the prefix as it was and adds no
\* file; and when no removal was refused it leaves no file in the folder
\* whose name starts with the prefix.
C33_CleanupContract ==
    f_op.name = "cleanup" =>
        /\ f_step # "CleanupRaised"
        /\ folder \subseteq f_op.before
        /\ f_op.before \ Named(f_op.before, f_op.prefix) \subseteq folder
        /\ f_step # "DeletionRefused" => Named(folder, f_op.prefix) = {}

C33_Witness ==
    /\ f_op.name = "cleanup"
    /\ f_step = "none"
    /\ Named(f_op.before, f_op.prefix) # {}
    /\ f_op.before \ Named(f_op.before, f_op.prefix) # {}
    /\ folder = f_op.before \ Named(f_op.before, f_op.prefix)

(***************************************************************************)
(* Properties of the group welcome (checked under SpecWelcome).            *)
(***************************************************************************)
\* C30: at most one welcome message is sent to a group, whatever the
\* interleaving of the handlers of its new_chat_members messages, and a
\* group is marked welcomed only after a welcome message was sent to it.
C30_WelcomedOnce ==
    /\ \A c \in WelcomeChats : w_msgs[c] <= 1
    /\ \A c \in WelcomeChats : was_group_welcomed(c) => w_msgs[c] >= 1

=============================================================================
